---- MODULE Spec2Model ----
(***************************************************************************)
(* Model of cgroupv2_exporter: the collector registry                      *)
(* (NewCgroupv2Collector, DisableDefaultCollectors), the aggregate          *)
(* collector (Cgroup2Collector.Collect, execute) and the file collector     *)
(* (Cgroupv2FileCollector.Update) with the parsers and the name sanitizer   *)
(* it calls.                                                                *)
(*                                                                         *)
(* Strings the code inspects character by character (file contents, file    *)
(* and directory names, metric names) are sequences of one-character        *)
(* strings.  float64 values are integers plus the three non-finite values.  *)
(***************************************************************************)
EXTENDS Integers, Sequences, FiniteSets, TLC

VARIABLES
    factories,              \* names registered by init() (keys of the factories map)
    collectorState,         \* name -> value of the --collector.<name> flag
    forcedCollectors,       \* names whose flag was given on the command line
    disableDefaults,        \* value of --collector.disable-defaults
    started,                \* main has passed the DisableDefaultCollectors call
    cgroups,                \* h.cgroups: the tracked directories, in order
    initiatedCollectorsMtx, \* 0 = unlocked, else the caller holding the mutex
    initiatedCollectors,    \* name -> instance id (0 = no entry)
    factoryCalls,           \* name -> number of factory invocations so far
    instances,              \* <<name, id>> -> the Cgroupv2FileCollector a factory built
    req,                    \* caller -> state of its NewCgroupv2Collector / Collect
    task,                   \* caller -> name -> state of the goroutine of Collect
    sink,                   \* caller -> name -> what reached the channel ch
    panicked,               \* a goroutine panicked: the process is gone
    filterInputs,           \* filter lists the clients of this run may send
    fileInputs,             \* file contents the kernel may show in this run
    scrapeBudget,           \* caller -> Collect calls its handler still serves
    cgroupInputs,           \* directory lists NewCgroupv2Collector may be called with
    sanitized,              \* a name and the results of sanitizeP8sName on it
    parsed                  \* a parser, what a reader gives it and what Parse returned

vars == <<factories, collectorState, forcedCollectors, disableDefaults, started,
          cgroups, initiatedCollectorsMtx, initiatedCollectors, factoryCalls,
          instances, req, task, sink, panicked,
          filterInputs, fileInputs, scrapeBudget, cgroupInputs, sanitized, parsed>>

(***************************************************************************)
(* Bounds of the model.                                                    *)
(***************************************************************************)
NumCallers == 2
MaxFilters == 2
NumDirs == 2
MaxScrapes == 2
MaxNameLen == 4
MaxLines == 2

(***************************************************************************)
(* Strings.                                                                *)
(***************************************************************************)
Lower == {"a","b","c","d","e","f","g","h","i","j","k","l","m",
          "n","o","p","q","r","s","t","u","v","w","x","y","z"}
Upper == {"A","B","C","D","E","F","G","H","I","J","K","L","M",
          "N","O","P","Q","R","S","T","U","V","W","X","Y","Z"}
Digit == {"0","1","2","3","4","5","6","7","8","9"}
Space == {" ", "\t", "\n", "\r"}

DigitVal(c) ==
    CASE c = "0" -> 0 [] c = "1" -> 1 [] c = "2" -> 2 [] c = "3" -> 3
      [] c = "4" -> 4 [] c = "5" -> 5 [] c = "6" -> 6 [] c = "7" -> 7
      [] c = "8" -> 8 [] c = "9" -> 9

RECURSIVE Join(_, _)
\* strings.Join / fmt.Sprintf("%s_%s"): the parts with sep between them
Join(parts, sep) ==
    IF parts = <<>> THEN <<>>
    ELSE IF Len(parts) = 1 THEN parts[1]
    ELSE parts[1] \o sep \o Join(Tail(parts), sep)

RECURSIVE SplitOn(_, _)
\* the maximal pieces of s between characters of seps (empty pieces kept)
SplitOn(s, seps) ==
    IF \A i \in 1..Len(s) : s[i] \notin seps THEN <<s>>
    ELSE LET i == CHOOSE j \in 1..Len(s) :
                      s[j] \in seps /\ \A k \in 1..(j-1) : s[k] \notin seps
         IN  <<SubSeq(s, 1, i-1)>> \o SplitOn(SubSeq(s, i+1, Len(s)), seps)

\* strings.Fields: the non-empty pieces between runs of white space
Fields(s) == SelectSeq(SplitOn(s, Space), LAMBDA w : w # <<>>)

RECURSIVE TrimLeft(_, _)
TrimLeft(s, cut) ==
    IF s # <<>> /\ s[1] \in cut THEN TrimLeft(Tail(s), cut) ELSE s

RECURSIVE TrimRight(_, _)
TrimRight(s, cut) ==
    IF s # <<>> /\ s[Len(s)] \in cut THEN TrimRight(SubSeq(s, 1, Len(s)-1), cut) ELSE s

\* strings.Trim(s, cutset) and strings.TrimSpace
Trim(s, cut) == TrimRight(TrimLeft(s, cut), cut)
TrimSpace(s) == Trim(s, Space)

HasSuffix(s, suf) ==
    Len(s) >= Len(suf) /\ SubSeq(s, Len(s) - Len(suf) + 1, Len(s)) = suf

\* strings.Contains(s, sub)
Contains(s, sub) ==
    \E i \in 1..(Len(s) - Len(sub) + 1) : SubSeq(s, i, i + Len(sub) - 1) = sub

\* bufio.MaxScanTokenSize: the largest buffer a Scanner made by
\* bufio.NewScanner allocates
MaxScanTokenSize == 64 * 1024

\* scanner.Err() after the loop is bufio.ErrTooLong: a line of the content
\* does not fit the buffer together with its terminator
ScanErrTooLong(s) ==
    LET raw == SplitOn(s, {"\n"})
    IN  \E i \in 1..Len(raw) : Len(raw[i]) >= MaxScanTokenSize

\* bufio.Scanner with ScanLines: lines without their terminator, a final
\* empty line after the last "\n" is not a line
ScanLines(s) ==
    LET raw == SplitOn(s, {"\n"})
        cut == IF raw[Len(raw)] = <<>> THEN SubSeq(raw, 1, Len(raw)-1) ELSE raw
        dropCR(l) == IF l # <<>> /\ l[Len(l)] = "\r" THEN SubSeq(l, 1, Len(l)-1) ELSE l
    IN  [i \in 1..Len(cut) |-> dropCR(cut[i])]

\* filepath.Base: the last element of the path
Base(path) ==
    LET p == TrimRight(path, {"/"})
        parts == SplitOn(p, {"/"})
    IN  IF path = <<>> THEN <<".">>
        ELSE IF p = <<>> THEN <<"/">>
        ELSE parts[Len(parts)]

(***************************************************************************)
(* sanitizeP8sName.                                                        *)
(***************************************************************************)
\* printable ASCII, code 32 to 126 (the grave accent, code 96, is spelled out)
Ascii == <<" ","!","\"","#","$","%","&","'","(",")","*","+",",","-",".","/",
           "0","1","2","3","4","5","6","7","8","9",":",";","<","=",">","?",
           "@","A","B","C","D","E","F","G","H","I","J","K","L","M","N","O",
           "P","Q","R","S","T","U","V","W","X","Y","Z","[","\\","]","^","_",
           "BACKTICK","a","b","c","d","e","f","g","h","i","j","k","l","m","n","o",
           "p","q","r","s","t","u","v","w","x","y","z","{","|","}","~">>

\* the character with the given code; one token stands for every code that
\* is not printable ASCII, tab, line feed or carriage return
CharOfCode(n) ==
    IF n \in 32..126 THEN Ascii[n - 31]
    ELSE IF n = 9 THEN "\t"
    ELSE IF n = 10 THEN "\n"
    ELSE IF n = 13 THEN "\r"
    ELSE "NONPRINT"

RECURSIVE ItoaNat(_)
ItoaNat(n) ==
    IF n < 10 THEN <<Ascii[17 + n]>>
    ELSE ItoaNat(n \div 10) \o <<Ascii[17 + (n % 10)]>>

\* strconv.Itoa
Itoa(i) == IF i < 0 THEN <<"-">> \o ItoaNat(0 - i) ELSE ItoaNat(i)

HexDigit == Digit \cup {"a","b","c","d","e","f","A","B","C","D","E","F"}

HexVal(c) ==
    IF c \in Digit THEN DigitVal(c)
    ELSE CASE c \in {"a","A"} -> 10 [] c \in {"b","B"} -> 11 [] c \in {"c","C"} -> 12
           [] c \in {"d","D"} -> 13 [] c \in {"e","E"} -> 14 [] c \in {"f","F"} -> 15

RECURSIVE NumIn(_, _)
\* the value of the digit string s in the given base
NumIn(s, base) ==
    IF s = <<>> THEN 0
    ELSE NumIn(SubSeq(s, 1, Len(s)-1), base) * base + HexVal(s[Len(s)])

UnquoteFail == [ok |-> FALSE, val |-> <<>>]

RECURSIVE UnquoteBody(_)
\* strconv.Unquote of a double-quoted string, given what is between the quotes
UnquoteBody(s) ==
    IF s = <<>> THEN [ok |-> TRUE, val |-> <<>>]
    ELSE LET c == s[1]
             then(ch, n) ==
                 LET r == UnquoteBody(SubSeq(s, n+1, Len(s)))
                 IN  IF r.ok THEN [ok |-> TRUE, val |-> <<ch>> \o r.val] ELSE UnquoteFail
             hex(n) ==
                 IF Len(s) >= 2 + n /\ \A i \in 3..(2+n) : s[i] \in HexDigit
                 THEN LET v == NumIn(SubSeq(s, 3, 2+n), 16)
                      IN  IF n > 2 /\ (v > 1114111 \/ v \in 55296..57343)
                          THEN UnquoteFail
                          ELSE then(CharOfCode(v), 2 + n)
                 ELSE UnquoteFail
         IN  IF c = "\"" \/ c = "\n" THEN UnquoteFail
             ELSE IF c # "\\" THEN then(c, 1)
             ELSE IF Len(s) < 2 THEN UnquoteFail
             ELSE LET e == s[2]
                  IN  CASE e \in {"a","b","f","v"} -> then("NONPRINT", 2)
                        [] e = "n" -> then("\n", 2)
                        [] e = "r" -> then("\r", 2)
                        [] e = "t" -> then("\t", 2)
                        [] e = "\\" -> then("\\", 2)
                        [] e = "\"" -> then("\"", 2)
                        [] e = "x" -> hex(2)
                        [] e = "u" -> hex(4)
                        [] e = "U" -> hex(8)
                        [] e \in {"0","1","2","3","4","5","6","7"} ->
                             IF Len(s) >= 4
                                /\ \A i \in 3..4 : s[i] \in {"0","1","2","3","4","5","6","7"}
                             THEN LET v == NumIn(SubSeq(s, 2, 4), 8)
                                  IN  IF v > 255 THEN UnquoteFail
                                      ELSE then(CharOfCode(v), 4)
                             ELSE UnquoteFail
                        [] OTHER -> UnquoteFail

\* the characters the regular expression [^a-zA-Z0-9_:] leaves alone
NameChars == Lower \cup Upper \cup Digit \cup {"_", ":"}

RECURSIVE Squeeze(_)
\* regexp `_+` replaced by "_"
Squeeze(s) ==
    IF Len(s) < 2 THEN s
    ELSE IF s[1] = "_" /\ s[2] = "_" THEN Squeeze(Tail(s))
    ELSE <<s[1]>> \o Squeeze(Tail(s))

\* a sanitizer without the replacement of `_+`
sanitizeP8sNameNoSqueeze(name) ==
    LET u == UnquoteBody(name)
        unquoted == IF u.ok THEN u.val ELSE name
        replaced == [i \in 1..Len(unquoted) |->
                        IF unquoted[i] \in NameChars THEN unquoted[i] ELSE "_"]
    IN  Trim(replaced, {"_"})

\* a sanitizer that trims before it replaces the unsupported characters
sanitizeP8sNameTrimFirst(name) ==
    LET u == UnquoteBody(name)
        unquoted == IF u.ok THEN u.val ELSE name
        trimmed == Trim(unquoted, {"_"})
        replaced == [i \in 1..Len(trimmed) |->
                        IF trimmed[i] \in NameChars THEN trimmed[i] ELSE "_"]
    IN  Squeeze(replaced)

sanitizeP8sName(name) ==
    LET u == UnquoteBody(name)
        unquoted == IF u.ok THEN u.val ELSE name
        replaced == [i \in 1..Len(unquoted) |->
                        IF unquoted[i] \in NameChars THEN unquoted[i] ELSE "_"]
    IN  Trim(Squeeze(replaced), {"_"})

(***************************************************************************)
(* float64 values and strconv.ParseFloat.                                  *)
(***************************************************************************)
\* strconv.Atoi: decimal digits with an optional sign
Atoi(s) ==
    LET signed == s # <<>> /\ s[1] \in {"+", "-"}
        body == IF signed THEN Tail(s) ELSE s
    IN  IF body # <<>> /\ \A i \in 1..Len(body) : body[i] \in Digit
        THEN [ok |-> TRUE,
              val |-> IF s[1] = "-" THEN 0 - NumIn(body, 10) ELSE NumIn(body, 10)]
        ELSE [ok |-> FALSE, val |-> 0]

\* a float64 is [k, n]: the integer n when k = "num", else a non-finite value
Num(n) == [k |-> "num", n |-> n]
PosInf == [k |-> "+Inf", n |-> 0]
NegInf == [k |-> "-Inf", n |-> 0]
NaN == [k |-> "NaN", n |-> 0]

\* a + b in float64
FAdd(a, b) ==
    IF a = NaN \/ b = NaN THEN NaN
    ELSE IF a = PosInf THEN (IF b = NegInf THEN NaN ELSE PosInf)
    ELSE IF a = NegInf THEN (IF b = PosInf THEN NaN ELSE NegInf)
    ELSE IF b \in {PosInf, NegInf} THEN b
    ELSE Num(a.n + b.n)

\* a < b in float64 (false whenever one side is NaN)
FLess(a, b) ==
    IF a = NaN \/ b = NaN THEN FALSE
    ELSE IF a = b THEN FALSE
    ELSE IF a = NegInf \/ b = PosInf THEN TRUE
    ELSE IF a = PosInf \/ b = NegInf THEN FALSE
    ELSE a.n < b.n

ToLower(c) ==
    IF c \in Upper
    THEN LET i == CHOOSE j \in 1..Len(Ascii) : Ascii[j] = c IN Ascii[i + 32]
    ELSE c

\* strconv.ParseFloat(s, 64) for decimal integers with an optional sign and
\* for the spellings of infinity and NaN; every other string is a syntax
\* error (the inputs of the model contain no fraction and no exponent)
ParseFloat(s) ==
    LET signed == s # <<>> /\ s[1] \in {"+", "-"}
        neg == s # <<>> /\ s[1] = "-"
        body == IF signed THEN Tail(s) ELSE s
        low == [i \in 1..Len(body) |-> ToLower(body[i])]
    IN  IF body # <<>> /\ \A i \in 1..Len(body) : body[i] \in Digit
        THEN [ok |-> TRUE, val |-> Num(IF neg THEN 0 - NumIn(body, 10) ELSE NumIn(body, 10))]
        ELSE IF low \in {<<"i","n","f">>, <<"i","n","f","i","n","i","t","y">>}
        THEN [ok |-> TRUE, val |-> IF neg THEN NegInf ELSE PosInf]
        ELSE IF low = <<"n","a","n">> /\ ~signed
        THEN [ok |-> TRUE, val |-> NaN]
        ELSE [ok |-> FALSE, val |-> Num(0)]


(***************************************************************************)
(* Maps (Go map values): functions with a finite domain.                   *)
(***************************************************************************)
EmptyMap == [x \in {} |-> 0]
Put(m, k, v) == [x \in DOMAIN m \cup {k} |-> IF x = k THEN v ELSE m[x]]
Without(m, k) == [x \in DOMAIN m \ {k} |-> m[x]]

RECURSIVE PutAll(_, _)
\* the map after the assignments m[kv[1]] = kv[2] of the sequence, in order
PutAll(m, kvs) ==
    IF kvs = <<>> THEN m
    ELSE PutAll(Put(m, kvs[1][1], kvs[1][2]), Tail(kvs))

RECURSIVE Flatten(_)
Flatten(ss) == IF ss = <<>> THEN <<>> ELSE ss[1] \o Flatten(Tail(ss))

(***************************************************************************)
(* The parsers bound to the file collectors: Parse returns the map from     *)
(* metric name to value that Update ranges over.  rd is what reading the    *)
(* opened file gives: [ok |-> TRUE, content |-> ...] or a read error.       *)
(***************************************************************************)
ParseError(kind) == [ok |-> FALSE, err |-> kind, metrics |-> EmptyMap]
Parsed(m) == [ok |-> TRUE, err |-> "", metrics |-> m]

SingleValueParser(MetricPrefix, rd) ==
    IF ~rd.ok THEN ParseError("read")
    ELSE LET content == TrimSpace(rd.content)
             value == ParseFloat(content)
         IN  IF content = <<"m","a","x">> THEN Parsed(Put(EmptyMap, MetricPrefix, PosInf))
             ELSE IF ~value.ok THEN ParseError("syntax")
             ELSE Parsed(Put(EmptyMap, MetricPrefix, value.val))

FlatKeyValueParser(MetricPrefix, rd) ==
    IF ~rd.ok THEN ParseError("read")
    ELSE LET lines == ScanLines(rd.content)
             one(line) ==
                 LET parts == Fields(line)
                 IN  IF Len(parts) # 2 THEN <<>>
                     ELSE << <<MetricPrefix \o <<"_">> \o parts[1],
                               ParseFloat(parts[2]).val>> >>
         IN  Parsed(PutAll(EmptyMap, Flatten([i \in 1..Len(lines) |-> one(lines[i])])))

NestedKeyValueParser(MetricPrefix, rd) ==
    IF ~rd.ok THEN ParseError("read")
    ELSE LET lines == ScanLines(rd.content)
             pair(prefix, m) ==
                 LET metric == SplitOn(m, {"="})
                 IN  IF Len(metric) # 2 THEN <<>>
                     ELSE << <<MetricPrefix \o <<"_">> \o prefix \o <<"_">> \o metric[1],
                               ParseFloat(metric[2]).val>> >>
             one(line) ==
                 LET parts == Fields(line)
                 IN  IF Len(parts) < 2 THEN <<>>
                     ELSE Flatten([j \in 1..(Len(parts)-1) |-> pair(parts[1], parts[j+1])])
         IN  Parsed(PutAll(EmptyMap, Flatten([i \in 1..Len(lines) |-> one(lines[i])])))

(***************************************************************************)
(* The parsers of package parsers: Parse returns a slice of Metric, each    *)
(* with a name, a value and a map of labels.                                *)
(***************************************************************************)
Metric(Name, Value, Labels) == [Name |-> Name, Value |-> Value, Labels |-> Labels]

\* a Parse that gives up at the first line that has not two fields
FlatKeyValueParserStop(MetricPrefix, rd) ==
    IF ~rd.ok THEN ParseError("read")
    ELSE IF ScanErrTooLong(rd.content) THEN ParseError("bufio.Scanner: token too long")
    ELSE LET lines == ScanLines(rd.content)
             wrong == {i \in 1..Len(lines) : Len(Fields(lines[i])) # 2}
             upto == IF wrong = {} THEN Len(lines)
                     ELSE (CHOOSE i \in wrong : \A j \in wrong : i <= j) - 1
             one(line) ==
                 LET parts == Fields(line)
                 IN  IF ~ParseFloat(parts[2]).ok THEN <<>>
                     ELSE << Metric(MetricPrefix, ParseFloat(parts[2]).val,
                                    Put(EmptyMap, "stat", parts[1])) >>
         IN  Parsed(Flatten([i \in 1..upto |-> one(lines[i])]))

\* (*FlatKeyValueParser).Parse: a line that has not two fields, or whose
\* value does not parse, is logged and skipped
FlatKeyValueParserParse(MetricPrefix, rd) ==
    IF ~rd.ok THEN ParseError("read")
    ELSE IF ScanErrTooLong(rd.content) THEN ParseError("bufio.Scanner: token too long")
    ELSE LET lines == ScanLines(rd.content)
             one(line) ==
                 LET parts == Fields(line)
                 IN  IF Len(parts) # 2 THEN <<>>
                     ELSE IF ~ParseFloat(parts[2]).ok THEN <<>>
                     ELSE << Metric(MetricPrefix, ParseFloat(parts[2]).val,
                                    Put(EmptyMap, "stat", parts[1])) >>
         IN  Parsed(Flatten([i \in 1..Len(lines) |-> one(lines[i])]))

\* a Parse that names the metric after the key and forgets the first field
NestedKeyValueParserNoLabels(MetricPrefix, rd) ==
    IF ~rd.ok THEN ParseError("read")
    ELSE LET lines == ScanLines(rd.content)
             pair(prefix, m) ==
                 LET metric == SplitOn(m, {"="})
                 IN  IF Len(metric) # 2 THEN <<>>
                     ELSE IF ~ParseFloat(metric[2]).ok THEN <<>>
                     ELSE << Metric(MetricPrefix \o <<"_">> \o metric[1],
                                    ParseFloat(metric[2]).val, EmptyMap) >>
             one(line) ==
                 LET parts == Fields(line)
                 IN  IF Len(parts) < 2 THEN <<>>
                     ELSE Flatten([j \in 1..(Len(parts)-1) |-> pair(parts[1], parts[j+1])])
         IN  Parsed(Flatten([i \in 1..Len(lines) |-> one(lines[i])]))

\* a Parse that labels every record with type
NestedKeyValueParserTypeOnly(MetricPrefix, rd) ==
    IF ~rd.ok THEN ParseError("read")
    ELSE IF ScanErrTooLong(rd.content) THEN ParseError("bufio.Scanner: token too long")
    ELSE LET lines == ScanLines(rd.content)
             pair(prefix, m) ==
                 LET metric == SplitOn(m, {"="})
                 IN  IF Len(metric) # 2 THEN <<>>
                     ELSE IF ~ParseFloat(metric[2]).ok THEN <<>>
                     ELSE << Metric(MetricPrefix \o <<"_">> \o metric[1],
                                    ParseFloat(metric[2]).val,
                                    Put(EmptyMap, "type", prefix)) >>
             one(line) ==
                 LET parts == Fields(line)
                 IN  IF Len(parts) < 2 THEN <<>>
                     ELSE Flatten([j \in 1..(Len(parts)-1) |-> pair(parts[1], parts[j+1])])
         IN  Parsed(Flatten([i \in 1..Len(lines) |-> one(lines[i])]))

\* a Parse that returns an error for a token that is no key=value pair
NestedKeyValueParserStrict(MetricPrefix, rd) ==
    IF ~rd.ok THEN ParseError("read")
    ELSE IF ScanErrTooLong(rd.content) THEN ParseError("bufio.Scanner: token too long")
    ELSE LET lines == ScanLines(rd.content)
             labelName == IF Contains(MetricPrefix, <<"p","r","e","s","s","u","r","e">>)
                          THEN "type" ELSE "device"
             bad(m) == Len(SplitOn(m, {"="})) # 2
             pair(prefix, m) ==
                 LET metric == SplitOn(m, {"="})
                 IN  IF ~ParseFloat(metric[2]).ok THEN <<>>
                     ELSE << Metric(MetricPrefix \o <<"_">> \o metric[1],
                                    ParseFloat(metric[2]).val,
                                    Put(EmptyMap, labelName, prefix)) >>
             one(line) ==
                 LET parts == Fields(line)
                 IN  IF Len(parts) < 2 THEN <<>>
                     ELSE Flatten([j \in 1..(Len(parts)-1) |-> pair(parts[1], parts[j+1])])
         IN  IF \E i \in 1..Len(lines) : \E j \in 2..Len(Fields(lines[i])) :
                    bad(Fields(lines[i])[j])
             THEN ParseError("syntax")
             ELSE Parsed(Flatten([i \in 1..Len(lines) |-> one(lines[i])]))

\* (*NestedKeyValueParser).Parse: the first field of a line becomes the
\* value of the label type (pressure files) or device
NestedKeyValueParserParse(MetricPrefix, rd) ==
    IF ~rd.ok THEN ParseError("read")
    ELSE IF ScanErrTooLong(rd.content) THEN ParseError("bufio.Scanner: token too long")
    ELSE LET lines == ScanLines(rd.content)
             labelName == IF Contains(MetricPrefix, <<"p","r","e","s","s","u","r","e">>)
                          THEN "type" ELSE "device"
             pair(prefix, m) ==
                 LET metric == SplitOn(m, {"="})
                 IN  IF Len(metric) # 2 THEN <<>>
                     ELSE IF ~ParseFloat(metric[2]).ok THEN <<>>
                     ELSE << Metric(MetricPrefix \o <<"_">> \o metric[1],
                                    ParseFloat(metric[2]).val,
                                    Put(EmptyMap, labelName, prefix)) >>
             one(line) ==
                 LET parts == Fields(line)
                 IN  IF Len(parts) < 2 THEN <<>>
                     ELSE Flatten([j \in 1..(Len(parts)-1) |-> pair(parts[1], parts[j+1])])
         IN  Parsed(Flatten([i \in 1..Len(lines) |-> one(lines[i])]))

\* a Parse that knows no max
SingleValueParserNoMax(MetricPrefix, rd) ==
    IF ~rd.ok THEN ParseError("read")
    ELSE LET content == TrimSpace(rd.content)
             value == ParseFloat(content)
         IN  IF ~value.ok THEN ParseError("syntax")
             ELSE Parsed(<< Metric(MetricPrefix, value.val, EmptyMap) >>)

\* (*SingleValueParser).Parse of package parsers: the trimmed content is
\* max or a float, else the parse fails
SingleValueParserParse(MetricPrefix, rd) ==
    IF ~rd.ok THEN ParseError("read")
    ELSE LET content == TrimSpace(rd.content)
             value == ParseFloat(content)
         IN  IF content = <<"m","a","x">>
             THEN Parsed(<< Metric(MetricPrefix, PosInf, EmptyMap) >>)
             ELSE IF ~value.ok THEN ParseError("syntax")
             ELSE Parsed(<< Metric(MetricPrefix, value.val, EmptyMap) >>)

\* a Parse whose ranges end before their second bound
RangeListCountParserExclusive(MetricPrefix, rd) ==
    IF ~rd.ok THEN ParseError("read")
    ELSE IF ScanErrTooLong(rd.content) THEN ParseError("bufio.Scanner: token too long")
    ELSE LET lines == ScanLines(rd.content)
             labelName == IF Contains(MetricPrefix, <<"m","e","m","s">>)
                          THEN "numanode" ELSE "cpucore"
             rec(i) == Metric(MetricPrefix, Num(1), Put(EmptyMap, labelName, Itoa(i)))
             token(raw) ==
                 LET r == TrimSpace(raw)
                     bounds == SplitOn(r, {"-"})
                     start == Atoi(bounds[1])
                     end == Atoi(bounds[2])
                     val == Atoi(r)
                 IN  IF Contains(r, <<"-">>)
                     THEN IF Len(bounds) # 2 THEN <<>>
                          ELSE IF ~start.ok THEN <<>>
                          ELSE IF ~end.ok THEN <<>>
                          ELSE [i \in 1..(end.val - start.val) |-> rec(start.val + i - 1)]
                     ELSE IF ~val.ok THEN <<>>
                     ELSE << rec(val.val) >>
             one(scanned) ==
                 LET line == TrimSpace(scanned)
                     ranges == SplitOn(line, {","})
                 IN  IF line = <<>> THEN <<>>
                     ELSE Flatten([j \in 1..Len(ranges) |-> token(ranges[j])])
         IN  Parsed(Flatten([i \in 1..Len(lines) |-> one(lines[i])]))

\* (*RangeListCountParser).Parse: one record of value 1 for every integer
\* of a singleton or of a range start-end; a token that is neither is
\* logged and skipped
RangeListCountParserParse(MetricPrefix, rd) ==
    IF ~rd.ok THEN ParseError("read")
    ELSE IF ScanErrTooLong(rd.content) THEN ParseError("bufio.Scanner: token too long")
    ELSE LET lines == ScanLines(rd.content)
             labelName == IF Contains(MetricPrefix, <<"m","e","m","s">>)
                          THEN "numanode" ELSE "cpucore"
             rec(i) == Metric(MetricPrefix, Num(1), Put(EmptyMap, labelName, Itoa(i)))
             token(raw) ==
                 LET r == TrimSpace(raw)
                     bounds == SplitOn(r, {"-"})
                     start == Atoi(bounds[1])
                     end == Atoi(bounds[2])
                     val == Atoi(r)
                 IN  IF Contains(r, <<"-">>)
                     THEN IF Len(bounds) # 2 THEN <<>>
                          ELSE IF ~start.ok THEN <<>>
                          ELSE IF ~end.ok THEN <<>>
                          ELSE [i \in 1..(end.val - start.val + 1) |-> rec(start.val + i - 1)]
                     ELSE IF ~val.ok THEN <<>>
                     ELSE << rec(val.val) >>
             one(scanned) ==
                 LET line == TrimSpace(scanned)
                     ranges == SplitOn(line, {","})
                 IN  IF line = <<>> THEN <<>>
                     ELSE Flatten([j \in 1..Len(ranges) |-> token(ranges[j])])
         IN  Parsed(Flatten([i \in 1..Len(lines) |-> one(lines[i])]))

(***************************************************************************)
(* The registered collectors: what each factory puts into the               *)
(* Cgroupv2FileCollector it returns.  log is not a field of the code: it    *)
(* keeps, for every counter series, the values Add was called with.         *)
(***************************************************************************)
MemoryCurrent == "memory.current"
CpuStat == "cpu.stat"
CpuPressure == "cpu.pressure"
MemoryStat == "memory.stat"
MemoryPressure == "memory.pressure"
MemorySwapCurrent == "memory.swap.current"
MemoryHigh == "memory.high"
PidsCurrent == "pids.current"
PidsPeak == "pids.peak"

\* the collectors of the model; factories holds those a run registers
KnownCollectors == {MemoryCurrent, CpuStat, CpuPressure, MemoryStat, MemoryPressure,
                    MemorySwapCurrent, MemoryHigh, PidsCurrent, PidsPeak}

\* the spelling of a collector's file name
FileName(name) ==
    CASE name = MemoryCurrent -> <<"m","e","m","o","r","y",".","c","u","r","r","e","n","t">>
      [] name = CpuStat -> <<"c","p","u",".","s","t","a","t">>
      [] name = CpuPressure -> <<"c","p","u",".","p","r","e","s","s","u","r","e">>
      [] name = MemoryStat -> <<"m","e","m","o","r","y",".","s","t","a","t">>
      [] name = MemoryPressure ->
            <<"m","e","m","o","r","y",".","p","r","e","s","s","u","r","e">>
      [] name = MemorySwapCurrent ->
            <<"m","e","m","o","r","y",".","s","w","a","p",".","c","u","r","r","e","n","t">>
      [] name = MemoryHigh -> <<"m","e","m","o","r","y",".","h","i","g","h">>
      [] name = PidsCurrent -> <<"p","i","d","s",".","c","u","r","r","e","n","t">>
      [] name = PidsPeak -> <<"p","i","d","s",".","p","e","a","k">>

NewMemoryCurrentCollector(dirs) ==
    [gaugeVecs |-> EmptyMap, counterVecs |-> EmptyMap, log |-> EmptyMap,
     parser |-> "SingleValueParser",
     MetricPrefix |-> sanitizeP8sName(FileName(MemoryCurrent)),
     dirNames |-> dirs, fileName |-> MemoryCurrent, isCounter |-> "never"]

NewMemorySwapCurrentCollector(dirs) ==
    [gaugeVecs |-> EmptyMap, counterVecs |-> EmptyMap, log |-> EmptyMap,
     parser |-> "SingleValueParser",
     MetricPrefix |-> sanitizeP8sName(FileName(MemorySwapCurrent)),
     dirNames |-> dirs, fileName |-> MemorySwapCurrent, isCounter |-> "never"]

NewMemoryHighCollector(dirs) ==
    [gaugeVecs |-> EmptyMap, counterVecs |-> EmptyMap, log |-> EmptyMap,
     parser |-> "SingleValueParser",
     MetricPrefix |-> sanitizeP8sName(FileName(MemoryHigh)),
     dirNames |-> dirs, fileName |-> MemoryHigh, isCounter |-> "never"]

NewPidsCurrentCollector(dirs) ==
    [gaugeVecs |-> EmptyMap, counterVecs |-> EmptyMap, log |-> EmptyMap,
     parser |-> "SingleValueParser",
     MetricPrefix |-> sanitizeP8sName(FileName(PidsCurrent)),
     dirNames |-> dirs, fileName |-> PidsCurrent, isCounter |-> "never"]

NewPidsPeakCollector(dirs) ==
    [gaugeVecs |-> EmptyMap, counterVecs |-> EmptyMap, log |-> EmptyMap,
     parser |-> "SingleValueParser",
     MetricPrefix |-> sanitizeP8sName(FileName(PidsPeak)),
     dirNames |-> dirs, fileName |-> PidsPeak, isCounter |-> "never"]

NewCpuStatCollector(dirs) ==
    [gaugeVecs |-> EmptyMap, counterVecs |-> EmptyMap, log |-> EmptyMap,
     parser |-> "FlatKeyValueParser",
     MetricPrefix |-> sanitizeP8sName(FileName(CpuStat)),
     dirNames |-> dirs, fileName |-> CpuStat, isCounter |-> "always"]

NewCpuPressureCollector(dirs) ==
    [gaugeVecs |-> EmptyMap, counterVecs |-> EmptyMap, log |-> EmptyMap,
     parser |-> "NestedKeyValueParser",
     MetricPrefix |-> sanitizeP8sName(FileName(CpuPressure)),
     dirNames |-> dirs, fileName |-> CpuPressure, isCounter |-> "suffixTotal"]

\* the two factories below bind a parser of package parsers and a
\* classifier that reads the labels of the record
NewMemoryStatCollector(dirs) ==
    [gaugeVecs |-> EmptyMap, counterVecs |-> EmptyMap, log |-> EmptyMap,
     parser |-> "parsers.FlatKeyValueParser",
     MetricPrefix |-> sanitizeP8sName(FileName(MemoryStat)),
     dirNames |-> dirs, fileName |-> MemoryStat, isCounter |-> "statTotal"]

NewMemoryPressureCollector(dirs) ==
    [gaugeVecs |-> EmptyMap, counterVecs |-> EmptyMap, log |-> EmptyMap,
     parser |-> "parsers.NestedKeyValueParser",
     MetricPrefix |-> sanitizeP8sName(FileName(MemoryPressure)),
     dirNames |-> dirs, fileName |-> MemoryPressure, isCounter |-> "typeTotal"]

\* factories[key](logger, cgroups): no factory of the repository returns an error
Factory(key, dirs) ==
    CASE key = MemoryCurrent -> NewMemoryCurrentCollector(dirs)
      [] key = CpuStat -> NewCpuStatCollector(dirs)
      [] key = CpuPressure -> NewCpuPressureCollector(dirs)
      [] key = MemoryStat -> NewMemoryStatCollector(dirs)
      [] key = MemoryPressure -> NewMemoryPressureCollector(dirs)
      [] key = MemorySwapCurrent -> NewMemorySwapCurrentCollector(dirs)
      [] key = MemoryHigh -> NewMemoryHighCollector(dirs)
      [] key = PidsCurrent -> NewPidsCurrentCollector(dirs)
      [] key = PidsPeak -> NewPidsPeakCollector(dirs)

\* a classifier that takes every record for a counter
isCounterAlways(cc, metricName) == TRUE

\* cc.isCounter(metricName)
isCounter(cc, metricName) ==
    CASE cc.isCounter = "never" -> FALSE
      [] cc.isCounter = "always" -> TRUE
      [] cc.isCounter = "suffixTotal" -> HasSuffix(metricName, <<"t","o","t","a","l">>)

\* cc.isCounter(metricName, labels) of the factories of memory.go
isCounterLabels(cc, metricName, labels) ==
    CASE cc.isCounter = "typeTotal" ->
            IF "type" \in DOMAIN labels
            THEN labels["type"] = <<"t","o","t","a","l">> ELSE FALSE
      [] cc.isCounter = "statTotal" ->
            IF "stat" \in DOMAIN labels
            THEN \/ HasSuffix(labels["stat"], <<"_","t","o","t","a","l">>)
                 \/ labels["stat"] = <<"t","o","t","a","l">>
            ELSE FALSE

\* the instance was built with a parser that returns labelled records
Labelled(cc) ==
    cc.parser \in {"parsers.FlatKeyValueParser", "parsers.NestedKeyValueParser"}

\* cc.parser.Parse(file)
Parse(cc, rd) ==
    CASE cc.parser = "SingleValueParser" -> SingleValueParser(cc.MetricPrefix, rd)
      [] cc.parser = "FlatKeyValueParser" -> FlatKeyValueParser(cc.MetricPrefix, rd)
      [] cc.parser = "NestedKeyValueParser" -> NestedKeyValueParser(cc.MetricPrefix, rd)
      [] cc.parser = "parsers.FlatKeyValueParser" ->
            FlatKeyValueParserParse(cc.MetricPrefix, rd)
      [] cc.parser = "parsers.NestedKeyValueParser" ->
            NestedKeyValueParserParse(cc.MetricPrefix, rd)
      [] cc.parser = "parsers.SingleValueParser" ->
            SingleValueParserParse(cc.MetricPrefix, rd)
      [] cc.parser = "parsers.RangeListCountParser" ->
            RangeListCountParserParse(cc.MetricPrefix, rd)


(***************************************************************************)
(* State of the callers and of the goroutines of Collect.                  *)
(***************************************************************************)
Callers == 1..NumCallers

\* the directories main found, longest list first
AllDirs == << <<"/","c","/","a",".","s">>, <<"/","c","/","b">>, <<"/","c","/","d","-","1">>,
              <<"/","c","/","e">> >>

\* a filter name no collector is registered under
NoSuch == "nosuch"

RECURSIVE SeqsUpTo(_, _)
\* the sequences over S of length at most n
SeqsUpTo(S, n) ==
    IF n = 0 THEN {<<>>}
    ELSE LET shorter == SeqsUpTo(S, n - 1)
         IN  shorter \cup {Append(q, x) : q \in shorter, x \in S}

\* the collect[] parameters of a request: up to n names of S, each sent once,
\* or one name sent twice
FilterLists(S, n) ==
    {q \in SeqsUpTo(S, n) :
        \/ \A i, j \in DOMAIN q : q[i] = q[j] => i = j
        \/ Len(q) = 2 /\ q[1] = q[2]}

Range(q) == {q[i] : i \in 1..Len(q)}

\* returned counts the Collect calls that have returned
IdleReq == [pc |-> "idle", cgroups |-> <<>>, filters |-> <<>>, f |-> {},
            Collectors |-> EmptyMap,
            todo |-> {}, key |-> "", err |-> "", wg |-> 0, returned |-> 0]

\* beside the locals of Update, what the current call has done so far: the
\* directories whose file it has opened, parsed, failed on, written records
\* of, the files it holds open, whether it has changed a cached value,
\* the lines execute has sent to the logger, and what Parse returned for the
\* file of each directory
IdleTask == [pc |-> "none", inst |-> <<>>, dir |-> 0, metrics |-> EmptyMap,
             cgroupName |-> <<>>, err |-> "", opened |-> {}, parsed |-> {},
             failed |-> {}, written |-> {}, changed |-> FALSE, openFiles |-> {},
             logged |-> <<>>, read |-> EmptyMap]

EmptySink == [data |-> EmptyMap, duration |-> 0, success |-> <<>>]

\* the command lines over the flags of `names`: a flag that is not given
\* keeps its default, and every collector is registered with defaultEnabled
CmdLines(names) ==
    {cl \in [forced : SUBSET names, state : [names -> BOOLEAN], disableDefaults : BOOLEAN] :
        \A c \in names \ cl.forced : cl.state[c] = TRUE}

\* no call of Parse is followed
NoParse == [parser |-> "", MetricPrefix |-> <<>>, lines |-> <<>>, rd |-> <<>>, out |-> <<>>]

\* no call of sanitizeP8sName is followed
NoName == [name |-> <<>>, out |-> <<>>]

\* the state after init() has registered `names`, kingpin.Parse() has applied
\* the flags of the command line and main has expanded the globs to `dirs`;
\* callers of NewCgroupv2Collector pass one of `lists`
InitCalls(names, cmdlines, active, dirs, lists, filters, files, budget) ==
    /\ factories = names
    /\ \E cl \in cmdlines :
          /\ forcedCollectors = cl.forced
          /\ collectorState = cl.state
          /\ disableDefaults = cl.disableDefaults
    /\ started = FALSE
    /\ cgroups = dirs
    /\ initiatedCollectorsMtx = 0
    /\ initiatedCollectors = [c \in names |-> 0]
    /\ factoryCalls = [c \in names |-> 0]
    /\ instances = EmptyMap
    /\ req = [p \in Callers |-> IF p \in active THEN IdleReq
                                 ELSE [IdleReq EXCEPT !.pc = "off"]]
    /\ task = [p \in Callers |-> [c \in names |-> IdleTask]]
    /\ sink = [p \in Callers |-> [c \in names |-> EmptySink]]
    /\ panicked = FALSE
    /\ filterInputs = filters
    /\ fileInputs = files
    /\ scrapeBudget = budget
    /\ cgroupInputs = lists

\* the program as main runs it: the handler passes h.cgroups in every call
InitWith(names, cmdlines, active, dirs, filters, files, budget) ==
    /\ InitCalls(names, cmdlines, active, dirs, {dirs}, filters, files, budget)
    /\ sanitized = NoName
    /\ parsed = NoParse

(***************************************************************************)
(* main: the collector.disable-defaults switch.                            *)
(***************************************************************************)
DisableAllCollectors ==
    /\ ~started
    /\ disableDefaults
    /\ collectorState' = [c \in DOMAIN collectorState |-> FALSE]
    /\ started' = TRUE
    /\ UNCHANGED <<factories, forcedCollectors, disableDefaults, cgroups,
                   initiatedCollectorsMtx, initiatedCollectors, factoryCalls,
                   instances, req, task, sink, panicked, filterInputs, fileInputs,
                   scrapeBudget, cgroupInputs, sanitized, parsed>>

DisableDefaultCollectors ==
    /\ ~started
    /\ disableDefaults
    /\ collectorState' = [c \in DOMAIN collectorState |->
                             IF c \notin forcedCollectors THEN FALSE
                             ELSE collectorState[c]]
    /\ started' = TRUE
    /\ UNCHANGED <<factories, forcedCollectors, disableDefaults, cgroups,
                   initiatedCollectorsMtx, initiatedCollectors, factoryCalls,
                   instances, req, task, sink, panicked, filterInputs, fileInputs,
                   scrapeBudget, cgroupInputs, sanitized, parsed>>

\* main without the switch goes straight on to serve
KeepDefaultCollectors ==
    /\ ~started
    /\ ~disableDefaults
    /\ started' = TRUE
    /\ UNCHANGED <<factories, collectorState, forcedCollectors, disableDefaults, cgroups,
                   initiatedCollectorsMtx, initiatedCollectors, factoryCalls,
                   instances, req, task, sink, panicked, filterInputs, fileInputs,
                   scrapeBudget, cgroupInputs, sanitized, parsed>>

(***************************************************************************)
(* NewCgroupv2Collector, called by innerHandler for newHandler (no filter)  *)
(* and for every request with collect[] parameters.                         *)
(***************************************************************************)
registry == <<factories, collectorState, forcedCollectors, disableDefaults, started,
              cgroups, filterInputs, fileInputs, cgroupInputs, sanitized, parsed>>

\* a caller enters NewCgroupv2Collector with the filters of its request.
\* The loop over filters that follows reads only collectorState, which nothing
\* writes once main serves, so callers pass through it one after the other.
innerHandler(p) ==
    /\ started /\ ~panicked
    /\ req[p].pc = "idle"
    /\ \A q \in Callers : req[q].pc # "filter"
    /\ \E fl \in filterInputs : \E dirs \in cgroupInputs :
          req' = [req EXCEPT ![p].pc = "filter", ![p].filters = fl, ![p].cgroups = dirs]
    /\ UNCHANGED <<registry, initiatedCollectorsMtx, initiatedCollectors, factoryCalls,
                   instances, task, sink, panicked, scrapeBudget>>

\* a loop over filters that checks registration only
FilterErrorMissingOnly(fl) ==
    IF \E i \in DOMAIN fl : fl[i] \notin DOMAIN collectorState
    THEN "missing collector" ELSE ""

RECURSIVE FilterError(_)
\* the error of the first filter the loop rejects, "" if it rejects none
FilterError(fl) ==
    IF fl = <<>> THEN ""
    ELSE IF fl[1] \notin DOMAIN collectorState THEN "missing collector"
    ELSE IF ~collectorState[fl[1]] THEN "disabled collector"
    ELSE FilterError(Tail(fl))

\* the loop over filters; on an error ServeHTTP answers StatusBadRequest.
\* Nothing reads filters after the loop, so the model forgets them when the
\* call goes on; a request that failed keeps the filters it was sent with.
CheckFilters(p) ==
    /\ ~panicked
    /\ req[p].pc = "filter"
    /\ LET e == FilterError(req[p].filters)
       IN  req' = [req EXCEPT ![p].pc = IF e = "" THEN "lock" ELSE "badRequest",
                              ![p].err = e,
                              ![p].filters = IF e = "" THEN <<>> ELSE @,
                              ![p].f = IF e = "" THEN Range(req[p].filters) ELSE {}]
    /\ UNCHANGED <<registry, initiatedCollectorsMtx, initiatedCollectors, factoryCalls,
                   instances, task, sink, panicked, scrapeBudget>>

\* a Lock that does not wait for the holder of the mutex
LockNoWait(p) ==
    /\ ~panicked
    /\ req[p].pc = "lock"
    /\ initiatedCollectorsMtx' = p
    /\ req' = [req EXCEPT ![p].pc = "range", ![p].todo = DOMAIN collectorState]
    /\ UNCHANGED <<registry, initiatedCollectors, factoryCalls,
                   instances, task, sink, panicked, scrapeBudget>>

\* initiatedCollectorsMtx.Lock()
Lock(p) ==
    /\ ~panicked
    /\ req[p].pc = "lock"
    /\ initiatedCollectorsMtx = 0
    /\ initiatedCollectorsMtx' = p
    /\ req' = [req EXCEPT ![p].pc = "range", ![p].todo = DOMAIN collectorState]
    /\ UNCHANGED <<registry, initiatedCollectors, factoryCalls,
                   instances, task, sink, panicked, scrapeBudget>>

\* one iteration of the range over collectorState, up to the cache lookup
\* a cache hit that hands the directory list of the call to the instance
RangeCollectorStateRebind(p) ==
    /\ ~panicked
    /\ req[p].pc = "range"
    /\ \E key \in req[p].todo :
          LET r == req[p]
              rest == r.todo \ {key}
          IN  IF ~collectorState[key] \/ (r.f # {} /\ key \notin r.f)
              THEN req' = [req EXCEPT ![p].todo = rest] /\ UNCHANGED instances
              ELSE IF initiatedCollectors[key] # 0
              THEN /\ req' = [req EXCEPT ![p].todo = rest,
                               ![p].Collectors = Put(r.Collectors, key, initiatedCollectors[key])]
                   /\ instances' = [instances EXCEPT
                          ![<<key, initiatedCollectors[key]>>].dirNames = r.cgroups]
              ELSE /\ req' = [req EXCEPT ![p].todo = rest, ![p].pc = "factory", ![p].key = key]
                   /\ UNCHANGED instances
    /\ UNCHANGED <<registry, initiatedCollectorsMtx, initiatedCollectors, factoryCalls,
                   task, sink, panicked, scrapeBudget>>

RangeCollectorStateUnfiltered(p) ==
    /\ ~panicked
    /\ req[p].pc = "range"
    /\ \E key \in req[p].todo :
          LET r == req[p]
              rest == r.todo \ {key}
          IN  IF ~collectorState[key]
              THEN req' = [req EXCEPT ![p].todo = rest]
              ELSE IF initiatedCollectors[key] # 0
              THEN req' = [req EXCEPT ![p].todo = rest,
                               ![p].Collectors = Put(r.Collectors, key, initiatedCollectors[key])]
              ELSE req' = [req EXCEPT ![p].todo = rest, ![p].pc = "factory", ![p].key = key]
    /\ UNCHANGED <<registry, initiatedCollectorsMtx, initiatedCollectors, factoryCalls,
                   instances, task, sink, panicked, scrapeBudget>>

RangeCollectorState(p) ==
    /\ ~panicked
    /\ req[p].pc = "range"
    /\ \E key \in req[p].todo :
          LET r == req[p]
              rest == r.todo \ {key}
          IN  IF ~collectorState[key] \/ (r.f # {} /\ key \notin r.f)
              THEN req' = [req EXCEPT ![p].todo = rest]
              ELSE IF initiatedCollectors[key] # 0
              THEN req' = [req EXCEPT ![p].todo = rest,
                               ![p].Collectors = Put(r.Collectors, key, initiatedCollectors[key])]
              ELSE req' = [req EXCEPT ![p].todo = rest, ![p].pc = "factory", ![p].key = key]
    /\ UNCHANGED <<registry, initiatedCollectorsMtx, initiatedCollectors, factoryCalls,
                   instances, task, sink, panicked, scrapeBudget>>

\* the cache miss: the factory builds the collector, which is stored
CallFactory(p) ==
    /\ ~panicked
    /\ req[p].pc = "factory"
    /\ LET key == req[p].key
           id == factoryCalls[key] + 1
       IN  /\ factoryCalls' = [factoryCalls EXCEPT ![key] = id]
           /\ instances' = Put(instances, <<key, id>>, Factory(key, req[p].cgroups))
           /\ initiatedCollectors' = [initiatedCollectors EXCEPT ![key] = id]
           /\ req' = [req EXCEPT ![p].pc = "range", ![p].key = "",
                            ![p].Collectors = Put(req[p].Collectors, key, id)]
    /\ UNCHANGED <<registry, initiatedCollectorsMtx, task, sink, panicked, scrapeBudget>>

\* a return on the error of a factory that leaves the mutex locked
CallFactoryErrorLocked(p) ==
    /\ ~panicked
    /\ req[p].pc = "factory"
    /\ req' = [req EXCEPT ![p].pc = "error", ![p].err = "factory",
                          ![p].Collectors = EmptyMap]
    /\ UNCHANGED <<registry, initiatedCollectorsMtx, initiatedCollectors, factoryCalls,
                   instances, task, sink, panicked, scrapeBudget>>

\* the cache miss with a factory that returns an error: return nil, err,
\* with the deferred Unlock; nothing is stored. The request keeps the key
\* whose factory failed.
CallFactoryError(p) ==
    /\ ~panicked
    /\ req[p].pc = "factory"
    /\ initiatedCollectorsMtx' = 0
    /\ req' = [req EXCEPT ![p].pc = "error", ![p].err = "factory",
                          ![p].Collectors = EmptyMap]
    /\ UNCHANGED <<registry, initiatedCollectors, factoryCalls,
                   instances, task, sink, panicked, scrapeBudget>>

\* the return after the loop, with the deferred Unlock
NewCgroupv2CollectorReturn(p) ==
    /\ ~panicked
    /\ req[p].pc = "range"
    /\ req[p].todo = {}
    /\ initiatedCollectorsMtx' = 0
    /\ req' = [req EXCEPT ![p].pc = "resolved"]
    /\ UNCHANGED <<registry, initiatedCollectors, factoryCalls,
                   instances, task, sink, panicked, scrapeBudget>>


(***************************************************************************)
(* Cgroup2Collector.Collect and execute.                                   *)
(***************************************************************************)
resolver == <<initiatedCollectorsMtx, initiatedCollectors, factoryCalls>>

\* wg.Add and the go statements: one goroutine per entry of cgc.Collectors
Collect(p) ==
    /\ ~panicked
    /\ req[p].pc = "resolved"
    /\ scrapeBudget[p] > 0
    /\ scrapeBudget' = [scrapeBudget EXCEPT ![p] = @ - 1]
    /\ req' = [req EXCEPT ![p].pc = "collecting",
                          ![p].wg = Cardinality(DOMAIN req[p].Collectors)]
    /\ task' = [task EXCEPT ![p] =
                   [c \in DOMAIN task[p] |->
                       IF c \in DOMAIN req[p].Collectors
                       THEN [IdleTask EXCEPT !.pc = "open", !.dir = 1,
                                             !.inst = <<c, req[p].Collectors[c]>>]
                       ELSE IdleTask]]
    /\ sink' = [sink EXCEPT ![p] = [c \in DOMAIN sink[p] |-> EmptySink]]
    /\ UNCHANGED <<registry, resolver, instances, panicked>>

\* an Update that logs the failure of a directory and goes on to the next
UpdateOpenContinue(p, name) ==
    /\ ~panicked
    /\ name \in factories
    /\ task[p][name].pc = "open"
    /\ LET t == task[p][name]
           cc == instances[t.inst]
           i == t.dir
       IN  IF i > Len(cc.dirNames)
           THEN task' = [task EXCEPT ![p][name].pc = "duration",
                                     ![p][name].err = IF t.failed = {} THEN "nil" ELSE "open",
                                     ![p][name].openFiles = {}]
           ELSE \E shown \in fileInputs[name] :
                LET rd == [ok |-> shown.err = "", content |-> shown.content]
                    res == Parse(cc, rd)
                IN  IF shown.err = "ENOENT" \/ ~res.ok
                    THEN task' = [task EXCEPT ![p][name].dir = i + 1,
                                              ![p][name].opened = @ \cup {i},
                                              ![p][name].failed = @ \cup {i}]
                    ELSE task' = [task EXCEPT
                            ![p][name].pc = IF res.metrics = EmptyMap THEN "open" ELSE "range",
                            ![p][name].dir = IF res.metrics = EmptyMap THEN i + 1 ELSE i,
                            ![p][name].metrics = res.metrics,
                            ![p][name].cgroupName = sanitizeP8sName(Base(cc.dirNames[i])),
                            ![p][name].opened = @ \cup {i},
                            ![p][name].parsed = @ \cup {i},
                            ![p][name].openFiles = @ \cup {i}]
    /\ UNCHANGED <<registry, resolver, instances, req, sink, panicked, scrapeBudget>>

\* an Update that walks the directory list from its end
UpdateOpenBackwards(p, name) ==
    /\ ~panicked
    /\ name \in factories
    /\ task[p][name].pc = "open"
    /\ LET t == task[p][name]
           cc == instances[t.inst]
           i == Len(cc.dirNames) + 1 - t.dir
       IN  IF t.dir > Len(cc.dirNames)
           THEN task' = [task EXCEPT ![p][name].pc = "duration",
                                     ![p][name].err = "nil",
                                     ![p][name].openFiles = {}]
           ELSE \E shown \in fileInputs[name] :
                LET rd == [ok |-> shown.err = "", content |-> shown.content]
                    res == Parse(cc, rd)
                IN  IF shown.err = "ENOENT" \/ ~res.ok
                    THEN task' = [task EXCEPT ![p][name].pc = "duration",
                                              ![p][name].err = "open",
                                              ![p][name].opened = @ \cup {i},
                                              ![p][name].failed = @ \cup {i},
                                              ![p][name].openFiles = {}]
                    ELSE task' = [task EXCEPT
                            ![p][name].pc = IF res.metrics = EmptyMap THEN "open" ELSE "range",
                            ![p][name].dir = IF res.metrics = EmptyMap THEN t.dir + 1 ELSE t.dir,
                            ![p][name].metrics = res.metrics,
                            ![p][name].cgroupName = sanitizeP8sName(Base(cc.dirNames[i])),
                            ![p][name].opened = @ \cup {i},
                            ![p][name].parsed = @ \cup {i},
                            ![p][name].openFiles = @ \cup {i}]
    /\ UNCHANGED <<registry, resolver, instances, req, sink, panicked, scrapeBudget>>

\* an Update that tries a file a second time when the first attempt failed
UpdateOpenRetry(p, name) ==
    /\ ~panicked
    /\ name \in factories
    /\ task[p][name].pc = "open"
    /\ LET t == task[p][name]
           cc == instances[t.inst]
           i == t.dir
       IN  IF i > Len(cc.dirNames)
           THEN task' = [task EXCEPT ![p][name].pc = "duration",
                                     ![p][name].err = "nil",
                                     ![p][name].openFiles = {}]
           ELSE \E shown \in fileInputs[name] :
                LET rd == [ok |-> shown.err = "", content |-> shown.content]
                    res == Parse(cc, rd)
                IN  IF shown.err = "ENOENT" \/ ~res.ok
                    THEN task' = [task EXCEPT
                            ![p][name].pc = IF i \in t.failed THEN "duration" ELSE "open",
                            ![p][name].err = IF i \in t.failed THEN "open" ELSE @,
                            ![p][name].opened = @ \cup {i},
                            ![p][name].failed = @ \cup {i},
                            ![p][name].openFiles = {}]
                    ELSE task' = [task EXCEPT
                            ![p][name].pc = IF res.metrics = EmptyMap THEN "open" ELSE "range",
                            ![p][name].dir = IF res.metrics = EmptyMap THEN i + 1 ELSE i,
                            ![p][name].metrics = res.metrics,
                            ![p][name].cgroupName = sanitizeP8sName(Base(cc.dirNames[i])),
                            ![p][name].opened = @ \cup {i},
                            ![p][name].parsed = @ \cup {i},
                            ![p][name].openFiles = @ \cup {i}]
    /\ UNCHANGED <<registry, resolver, instances, req, sink, panicked, scrapeBudget>>

\* an Update that closes its files where it returns nil only
UpdateOpenLeak(p, name) ==
    /\ ~panicked
    /\ name \in factories
    /\ task[p][name].pc = "open"
    /\ LET t == task[p][name]
           cc == instances[t.inst]
           i == t.dir
       IN  IF i > Len(cc.dirNames)
           THEN task' = [task EXCEPT ![p][name].pc = "duration",
                                     ![p][name].err = "nil",
                                     ![p][name].openFiles = {}]
           ELSE \E shown \in fileInputs[name] :
                LET rd == [ok |-> shown.err = "", content |-> shown.content]
                    res == Parse(cc, rd)
                IN  IF shown.err = "ENOENT" \/ ~res.ok
                    THEN task' = [task EXCEPT
                            ![p][name].pc = "duration",
                            ![p][name].err = IF shown.err = "ENOENT" THEN "open" ELSE "parse",
                            ![p][name].opened = @ \cup {i},
                            ![p][name].parsed = IF shown.err = "ENOENT" THEN @ ELSE @ \cup {i},
                            ![p][name].failed = @ \cup {i},
                            ![p][name].openFiles =
                                IF shown.err = "ENOENT" THEN @ ELSE @ \cup {i}]
                    ELSE task' = [task EXCEPT
                            ![p][name].pc = IF res.metrics = EmptyMap THEN "open" ELSE "range",
                            ![p][name].dir = IF res.metrics = EmptyMap THEN i + 1 ELSE i,
                            ![p][name].metrics = res.metrics,
                            ![p][name].read = Put(@, i, res.metrics),
                            ![p][name].cgroupName = sanitizeP8sName(Base(cc.dirNames[i])),
                            ![p][name].opened = @ \cup {i},
                            ![p][name].parsed = @ \cup {i},
                            ![p][name].openFiles = @ \cup {i}]
    /\ UNCHANGED <<registry, resolver, instances, req, sink, panicked, scrapeBudget>>

\* filepath.Join(dirName, cc.fileName) is opened and parsed: the kernel
\* shows one of fileInputs; ENOENT fails os.Open, EIO fails the read
UpdateOpen(p, name) ==
    /\ ~panicked
    /\ name \in factories
    /\ task[p][name].pc = "open"
    /\ LET t == task[p][name]
           cc == instances[t.inst]
           i == t.dir
       IN  IF i > Len(cc.dirNames)
           THEN \* the loop is over: return nil, the deferred Close calls run
                task' = [task EXCEPT ![p][name].pc = "duration",
                                     ![p][name].err = "nil",
                                     ![p][name].openFiles = {}]
           ELSE \E shown \in fileInputs[name] :
                IF shown.err = "ENOENT"
                THEN task' = [task EXCEPT ![p][name].pc = "duration",
                                          ![p][name].err = "open",
                                          ![p][name].opened = @ \cup {i},
                                          ![p][name].failed = @ \cup {i},
                                          ![p][name].openFiles = {}]
                ELSE LET rd == [ok |-> shown.err = "", content |-> shown.content]
                         res == Parse(cc, rd)
                     IN  IF ~res.ok
                         THEN task' = [task EXCEPT ![p][name].pc = "duration",
                                                   ![p][name].err = "parse",
                                                   ![p][name].opened = @ \cup {i},
                                                   ![p][name].parsed = @ \cup {i},
                                                   ![p][name].failed = @ \cup {i},
                                                   ![p][name].openFiles = {}]
                         ELSE task' = [task EXCEPT
                                 ![p][name].pc = IF res.metrics = EmptyMap THEN "open" ELSE "range",
                                 ![p][name].dir = IF res.metrics = EmptyMap THEN i + 1 ELSE i,
                                 ![p][name].metrics = res.metrics,
                                 ![p][name].read = Put(@, i, res.metrics),
                                 ![p][name].cgroupName = sanitizeP8sName(Base(cc.dirNames[i])),
                                 ![p][name].opened = @ \cup {i},
                                 ![p][name].parsed = @ \cup {i},
                                 ![p][name].openFiles = @ \cup {i}]
    /\ UNCHANGED <<registry, resolver, instances, req, sink, panicked, scrapeBudget>>

\* vec.Collect(ch): every label combination of the vector goes to the channel
Emit(snk, metricName, vec) ==
    [snk EXCEPT !.data =
        [sr \in DOMAIN snk.data \cup {<<metricName, cg>> : cg \in DOMAIN vec} |->
            (IF sr \in DOMAIN snk.data THEN snk.data[sr] ELSE 0)
            + (IF sr[1] = metricName /\ sr[2] \in DOMAIN vec THEN 1 ELSE 0)]]

\* a counter that takes the value of the record, as a gauge does
CounterStore(vecs, metricName, cgroupName, value) ==
    LET vec == IF metricName \in DOMAIN vecs THEN vecs[metricName] ELSE EmptyMap
    IN  Put(vec, cgroupName, value)

\* the vector of metricName after WithLabelValues(cgroupName).Add(value);
\* the vector is created on first use
CounterAdd(vecs, metricName, cgroupName, value) ==
    LET vec == IF metricName \in DOMAIN vecs THEN vecs[metricName] ELSE EmptyMap
        old == IF cgroupName \in DOMAIN vec THEN vec[cgroupName] ELSE Num(0)
    IN  Put(vec, cgroupName, FAdd(old, value))

\* a Set on a vector made anew for every record
GaugeSetFresh(vecs, metricName, cgroupName, value) ==
    Put(EmptyMap, cgroupName, value)

\* the vector of metricName after WithLabelValues(cgroupName).Set(value)
GaugeSet(vecs, metricName, cgroupName, value) ==
    LET vec == IF metricName \in DOMAIN vecs THEN vecs[metricName] ELSE EmptyMap
    IN  Put(vec, cgroupName, value)

\* the value a vector holds for a label combination, 0 before the first write
ValueAt(vecs, metricName, cgroupName) ==
    IF metricName \in DOMAIN vecs /\ cgroupName \in DOMAIN vecs[metricName]
    THEN vecs[metricName][cgroupName] ELSE Num(0)

Logged(cc, metricName, cgroupName, value) ==
    LET sr == <<metricName, cgroupName>>
    IN  Put(cc.log, sr, Append(IF sr \in DOMAIN cc.log THEN cc.log[sr] ELSE <<>>, value))

\* one iteration of the range over metrics
UpdateMetric(p, name) ==
    /\ ~panicked
    /\ name \in factories
    /\ task[p][name].pc = "range"
    /\ ~Labelled(instances[task[p][name].inst])
    /\ \E key \in DOMAIN task[p][name].metrics :
          LET t == task[p][name]
              cc == instances[t.inst]
              value == t.metrics[key]
              metricName == sanitizeP8sName(key)
              rest == Without(t.metrics, key)
              counter == isCounter(cc, metricName)
              vecs == IF counter THEN cc.counterVecs ELSE cc.gaugeVecs
              vec == IF counter THEN CounterAdd(vecs, metricName, t.cgroupName, value)
                     ELSE GaugeSet(vecs, metricName, t.cgroupName, value)
              next == [t EXCEPT !.metrics = rest,
                                !.pc = IF rest = EmptyMap THEN "open" ELSE "range",
                                !.dir = IF rest = EmptyMap THEN t.dir + 1 ELSE t.dir,
                                !.written = @ \cup {t.dir},
                                !.changed = @ \/ vec[t.cgroupName] #
                                                  ValueAt(vecs, metricName, t.cgroupName)]
          IN  IF counter /\ FLess(value, Num(0))
              THEN \* Counter.Add panics on a negative value
                   /\ panicked' = TRUE
                   /\ UNCHANGED <<instances, task, sink>>
              ELSE /\ instances' =
                        [instances EXCEPT ![t.inst] =
                            [cc EXCEPT !.counterVecs = IF counter THEN Put(@, metricName, vec) ELSE @,
                                       !.gaugeVecs = IF counter THEN @ ELSE Put(@, metricName, vec),
                                       !.log = IF counter
                                               THEN Logged(cc, metricName, t.cgroupName, value)
                                               ELSE @]]
                   /\ sink' = [sink EXCEPT ![p][name] = Emit(@, metricName, vec)]
                   /\ task' = [task EXCEPT ![p][name] = next]
                   /\ UNCHANGED panicked
    /\ UNCHANGED <<registry, resolver, req, scrapeBudget>>

\* one iteration of the loop over the records of a parser of package
\* parsers, which the File Collector takes in their order: the vector is
\* chosen by is_counter(name, labels), and the value is set or added under
\* the labels of the record together with cgroup
UpdateRecord(p, name) ==
    /\ ~panicked
    /\ name \in factories
    /\ task[p][name].pc = "range"
    /\ Labelled(instances[task[p][name].inst])
    /\ LET t == task[p][name]
           cc == instances[t.inst]
           record == Head(t.metrics)
           metricName == sanitizeP8sName(record.Name)
           labels == Put(record.Labels, "cgroup", t.cgroupName)
           rest == Tail(t.metrics)
           counter == isCounterLabels(cc, metricName, record.Labels)
           vecs == IF counter THEN cc.counterVecs ELSE cc.gaugeVecs
           vec == IF counter THEN CounterAdd(vecs, metricName, labels, record.Value)
                  ELSE GaugeSet(vecs, metricName, labels, record.Value)
           next == [t EXCEPT !.metrics = rest,
                             !.pc = IF rest = <<>> THEN "open" ELSE "range",
                             !.dir = IF rest = <<>> THEN t.dir + 1 ELSE t.dir,
                             !.written = @ \cup {t.dir},
                             !.changed = @ \/ vec[labels] #
                                               ValueAt(vecs, metricName, labels)]
       IN  IF counter /\ FLess(record.Value, Num(0))
           THEN \* Counter.Add panics on a negative value
                /\ panicked' = TRUE
                /\ UNCHANGED <<instances, task, sink>>
           ELSE /\ instances' =
                     [instances EXCEPT ![t.inst] =
                         [cc EXCEPT !.counterVecs = IF counter THEN Put(@, metricName, vec) ELSE @,
                                    !.gaugeVecs = IF counter THEN @ ELSE Put(@, metricName, vec),
                                    !.log = IF counter
                                            THEN Logged(cc, metricName, labels, record.Value)
                                            ELSE @]]
                /\ sink' = [sink EXCEPT ![p][name] = Emit(@, metricName, vec)]
                /\ task' = [task EXCEPT ![p][name] = next]
                /\ UNCHANGED panicked
    /\ UNCHANGED <<registry, resolver, req, scrapeBudget>>

\* the sentinel of a collector that found nothing to collect
ErrNoData == "collector returned no data"

\* an execute that takes no error for the sentinel
IsNoDataErrorNever(err) == FALSE

IsNoDataError(err) == err = ErrNoData

\* the line execute sends to its logger for the error Update returned
ExecuteLog(err) ==
    IF err # "nil"
    THEN IF IsNoDataError(err)
         THEN [level |-> "DEBUG", msg |-> "collector returned no data"]
         ELSE [level |-> "ERROR", msg |-> "collector failed"]
    ELSE [level |-> "DEBUG", msg |-> "collector succeeded"]

\* the errors an implementation of Collector may return from Update
UpdateErrors == {"nil", ErrNoData, "open", "parse"}

\* c.Update(ch) of a Collector of which execute knows the interface only:
\* it returns nil, ErrNoData or another error
CollectorUpdate(p, name) ==
    /\ ~panicked
    /\ name \in factories
    /\ task[p][name].pc = "open"
    /\ \E err \in UpdateErrors :
          task' = [task EXCEPT ![p][name].pc = "duration", ![p][name].err = err]
    /\ UNCHANGED <<registry, resolver, instances, req, sink, panicked, scrapeBudget>>

\* an execute that sends the success record where the duration record is due
ExecuteDurationAfterSuccess(p, name) ==
    /\ ~panicked
    /\ name \in factories
    /\ task[p][name].pc = "duration"
    /\ sink' = [sink EXCEPT ![p][name].success =
                   Append(@, IF task[p][name].err = "nil" THEN 1 ELSE 0)]
    /\ task' = [task EXCEPT ![p][name].pc = "success",
                            ![p][name].logged = Append(@, ExecuteLog(task[p][name].err))]
    /\ UNCHANGED <<registry, resolver, instances, req, panicked, scrapeBudget>>

\* execute after Update has returned: the log line and the duration record
ExecuteDuration(p, name) ==
    /\ ~panicked
    /\ name \in factories
    /\ task[p][name].pc = "duration"
    /\ sink' = [sink EXCEPT ![p][name].duration = @ + 1]
    /\ task' = [task EXCEPT ![p][name].pc = "success",
                            ![p][name].logged = Append(@, ExecuteLog(task[p][name].err))]
    /\ UNCHANGED <<registry, resolver, instances, req, panicked, scrapeBudget>>

\* an execute that returns on an error before it sends the success record
ExecuteSuccessOnNilOnly(p, name) ==
    /\ ~panicked
    /\ name \in factories
    /\ task[p][name].pc = "success"
    /\ sink' = [sink EXCEPT ![p][name].success =
                   IF task[p][name].err = "nil" THEN Append(@, 1) ELSE @]
    /\ task' = [task EXCEPT ![p][name].pc = "done"]
    /\ UNCHANGED <<registry, resolver, instances, req, panicked, scrapeBudget>>

\* the success record: 1 when err == nil, else 0
ExecuteSuccess(p, name) ==
    /\ ~panicked
    /\ name \in factories
    /\ task[p][name].pc = "success"
    /\ sink' = [sink EXCEPT ![p][name].success =
                   Append(@, IF task[p][name].err = "nil" THEN 1 ELSE 0)]
    /\ task' = [task EXCEPT ![p][name].pc = "done"]
    /\ UNCHANGED <<registry, resolver, instances, req, panicked, scrapeBudget>>

\* a goroutine whose collector failed releases the whole wait group, so
\* that Collect gives up on the others
WgDoneAbortOnError(p, name) ==
    /\ ~panicked
    /\ name \in factories
    /\ task[p][name].pc = "done"
    /\ req' = [req EXCEPT ![p].wg = IF task[p][name].err = "nil" THEN @ - 1 ELSE 0]
    /\ task' = [task EXCEPT ![p][name].pc = "exit"]
    /\ UNCHANGED <<registry, resolver, instances, sink, panicked, scrapeBudget>>

\* a goroutine that reaches wg.Done() only when its collector succeeded
WgDoneOnSuccessOnly(p, name) ==
    /\ ~panicked
    /\ name \in factories
    /\ task[p][name].pc = "done"
    /\ req' = [req EXCEPT ![p].wg = IF task[p][name].err = "nil" THEN @ - 1 ELSE @]
    /\ task' = [task EXCEPT ![p][name].pc = "exit"]
    /\ UNCHANGED <<registry, resolver, instances, sink, panicked, scrapeBudget>>

\* wg.Done() ends the goroutine
WgDone(p, name) ==
    /\ ~panicked
    /\ name \in factories
    /\ task[p][name].pc = "done"
    /\ req' = [req EXCEPT ![p].wg = @ - 1]
    /\ task' = [task EXCEPT ![p][name].pc = "exit"]
    /\ UNCHANGED <<registry, resolver, instances, sink, panicked, scrapeBudget>>

\* a Collect that returns without waiting for its goroutines
CollectReturnNoWait(p) ==
    /\ ~panicked
    /\ req[p].pc = "collecting"
    /\ req' = [req EXCEPT ![p].pc = "resolved", ![p].returned = @ + 1]
    /\ UNCHANGED <<registry, resolver, instances, task, sink, panicked, scrapeBudget>>

\* wg.Wait() returns
CollectReturn(p) ==
    /\ ~panicked
    /\ req[p].pc = "collecting"
    /\ req[p].wg = 0
    /\ req' = [req EXCEPT ![p].pc = "resolved", ![p].returned = @ + 1]
    /\ UNCHANGED <<registry, resolver, instances, task, sink, panicked, scrapeBudget>>

(***************************************************************************)
(* Specifications.                                                         *)
(***************************************************************************)
Next ==
    \/ DisableDefaultCollectors
    \/ KeepDefaultCollectors
    \/ \E p \in Callers :
          \/ innerHandler(p)
          \/ CheckFilters(p)
          \/ Lock(p)
          \/ RangeCollectorState(p)
          \/ CallFactory(p)
          \/ NewCgroupv2CollectorReturn(p)
          \/ Collect(p)
          \/ CollectReturn(p)
          \/ \E name \in KnownCollectors :
                \/ UpdateOpen(p, name)
                \/ UpdateMetric(p, name)
                \/ ExecuteDuration(p, name)
                \/ ExecuteSuccess(p, name)
                \/ WgDone(p, name)

\* what the kernel may show for a file: an errno of open (ENOENT) or of
\* read (EIO), or a content
Errno(e) == [err |-> e, content |-> <<>>]
Content(c) == [err |-> "", content |-> c]

\* the registry under concurrent callers: every command line and every
\* filter list; one directory, and the handler of caller 1 serves one scrape
RegistryFiles ==
    [c \in {MemoryCurrent, CpuStat} |->
        IF c = MemoryCurrent
        THEN {Errno("ENOENT"), Content(<<"1","\n">>)}
        ELSE {Errno("EIO"), Content(<<"u"," ","1","\n">>)}]

\* the command lines that switch collectors off one by one, or all of them
\* with --collector.disable-defaults
SwitchOff(names) ==
    {cl \in CmdLines(names) :
        /\ \A c \in cl.forced : ~cl.state[c]
        /\ cl.disableDefaults => cl.forced = {}}

Init ==
    InitWith({MemoryCurrent, CpuStat}, SwitchOff({MemoryCurrent, CpuStat}), Callers,
             SubSeq(AllDirs, 1, 1),
             FilterLists({MemoryCurrent, CpuStat, NoSuch}, MaxFilters), RegistryFiles,
             [p \in Callers |-> IF p = 1 THEN 1 ELSE 0])

Spec == Init /\ [][Next]_vars


\* every command line, one handler: what the flags do to the registry
InitFlags ==
    InitWith({MemoryCurrent, CpuStat}, CmdLines({MemoryCurrent, CpuStat}), {1},
             SubSeq(AllDirs, 1, 1),
             SeqsUpTo({MemoryCurrent, CpuStat, NoSuch}, 1), RegistryFiles,
             [p \in Callers |-> 1])

SpecFlags == InitFlags /\ [][Next]_vars

\* the files of the collectors of memory.go: memory.stat with a key that
\* ends in _total beside one that does not, memory.pressure with the lines
\* some and full, a value that does not parse, a missing file
LabelFiles ==
    [c \in {MemoryStat, MemoryPressure, CpuPressure} |->
        IF c = MemoryStat
        THEN {Content(<<"a","_","t","o","t","a","l"," ","1","\n","b"," ","2","\n">>),
              Content(<<"b"," ","1","\n","c","\n">>)}
        ELSE {Content(<<"s","o","m","e"," ","a","v","g","1","0","=","2"," ",
                        "t","o","t","a","l","=","1","\n",
                        "f","u","l","l"," ","a","v","g","1","0","=","x"," ",
                        "t","o","t","a","l","=","3","\n">>),
              Errno("ENOENT")}]

\* the next-state relation of a run whose collectors return labelled records
NextLabels ==
    \/ KeepDefaultCollectors
    \/ \E p \in Callers :
          \/ innerHandler(p)
          \/ CheckFilters(p)
          \/ Lock(p)
          \/ RangeCollectorState(p)
          \/ CallFactory(p)
          \/ NewCgroupv2CollectorReturn(p)
          \/ Collect(p)
          \/ CollectReturn(p)
          \/ \E name \in KnownCollectors :
                \/ UpdateOpen(p, name)
                \/ UpdateMetric(p, name)
                \/ UpdateRecord(p, name)
                \/ ExecuteDuration(p, name)
                \/ ExecuteSuccess(p, name)
                \/ WgDone(p, name)

\* a run registers memory.pressure with memory.stat or with cpu.pressure,
\* and its handler serves one scrape
InitLabels ==
    \E names \in {{MemoryStat, MemoryPressure}, {MemoryPressure, CpuPressure}} :
        InitWith(names,
                 {cl \in CmdLines(names) : cl.forced = {} /\ ~cl.disableDefaults}, {1},
                 SubSeq(AllDirs, 1, NumDirs), {<<>>}, LabelFiles,
                 [p \in Callers |-> 1])

SpecLabels == InitLabels /\ [][NextLabels]_vars

\* two requests in flight at once: each caller resolves, with or without a
\* filter, and scrapes once; NewCgroupv2Collector is called with directory
\* lists of different lengths
SharedFiles == [c \in {MemoryCurrent} |-> {Content(<<"1","\n">>)}]

NextShared ==
    \/ KeepDefaultCollectors
    \/ \E p \in Callers :
          \/ innerHandler(p)
          \/ CheckFilters(p)
          \/ Lock(p)
          \/ RangeCollectorState(p)
          \/ CallFactory(p)
          \/ NewCgroupv2CollectorReturn(p)
          \/ Collect(p)
          \/ CollectReturn(p)
          \/ \E name \in KnownCollectors :
                \/ UpdateOpen(p, name)
                \/ UpdateMetric(p, name)
                \/ ExecuteDuration(p, name)
                \/ ExecuteSuccess(p, name)
                \/ WgDone(p, name)

InitShared ==
    /\ InitCalls({MemoryCurrent},
                 {cl \in CmdLines({MemoryCurrent}) : cl.forced = {} /\ ~cl.disableDefaults},
                 {1, 2} \cap Callers, SubSeq(AllDirs, 1, NumDirs),
                 {SubSeq(AllDirs, 1, k) : k \in 1..NumDirs},
                 {<<>>, <<MemoryCurrent>>}, SharedFiles,
                 [p \in Callers |-> IF p \in {1, 2} THEN 1 ELSE 0])
    /\ sanitized = NoName
    /\ parsed = NoParse

SpecShared == InitShared /\ [][NextShared]_vars

\* execute over collectors that are known by the Collector interface only
NextExecute ==
    \/ KeepDefaultCollectors
    \/ \E p \in Callers :
          \/ innerHandler(p)
          \/ CheckFilters(p)
          \/ Lock(p)
          \/ RangeCollectorState(p)
          \/ CallFactory(p)
          \/ NewCgroupv2CollectorReturn(p)
          \/ Collect(p)
          \/ CollectReturn(p)
          \/ \E name \in KnownCollectors :
                \/ CollectorUpdate(p, name)
                \/ ExecuteDuration(p, name)
                \/ ExecuteSuccess(p, name)
                \/ WgDone(p, name)

InitExecute ==
    InitWith({MemoryCurrent, CpuStat},
             {cl \in CmdLines({MemoryCurrent, CpuStat}) :
                 cl.forced = {} /\ ~cl.disableDefaults},
             {1}, SubSeq(AllDirs, 1, NumDirs), {<<>>},
             [c \in {MemoryCurrent, CpuStat} |-> {Content(<<"1", "\n">>)}],
             [p \in Callers |-> MaxScrapes])

SpecExecute == InitExecute /\ [][NextExecute]_vars

\* the files of a scrape: a missing file, values that repeat and change, a
\* content that is no number, a line with one field, a negative value
ScrapeFiles ==
    [c \in {MemoryCurrent, CpuStat} |->
        IF c = MemoryCurrent
        THEN {Content(<<"1","\n">>), Content(<<"2","\n">>), Content(<<"b","u","s","y">>)}
        ELSE {Errno("ENOENT"), Content(<<"u"," ","1","\n","x","\n">>),
              Content(<<"u"," ","-","1","\n">>)}]

\* the handler main prepares (no filter) serves scrape after scrape
InitScrape ==
    InitWith({MemoryCurrent, CpuStat},
             {cl \in CmdLines({MemoryCurrent, CpuStat}) : cl.forced = {}}, {1},
             SubSeq(AllDirs, 1, NumDirs), {<<>>}, ScrapeFiles,
             [p \in Callers |-> MaxScrapes])

SpecScrape == InitScrape /\ [][Next]_vars


\* the characters of the names sanitizeP8sName is tried on: those of the
\* escape sequence \x2d, a quote, and supported and unsupported characters
NameAlphabet == {"\\", "x", "2", "d", "\"", "_", ".", ":", "a"}

\* sanitizeP8sName is called on the name, then on its own result
SanitizeCall ==
    /\ Len(sanitized.out) < 2
    /\ sanitized' = [sanitized EXCEPT !.out =
           Append(@, sanitizeP8sName(IF @ = <<>> THEN sanitized.name ELSE @[Len(@)]))]
    /\ UNCHANGED <<factories, collectorState, forcedCollectors, disableDefaults, started,
                   cgroups, filterInputs, fileInputs, cgroupInputs, resolver, instances,
                   req, task, sink, panicked, scrapeBudget, parsed>>

NextSanitize == SanitizeCall

\* no collector is registered; the name is any string over NameAlphabet
InitSanitize ==
    /\ InitCalls({}, {cl \in CmdLines({}) : ~cl.disableDefaults}, {}, <<>>, {<<>>}, {<<>>},
                 EmptyMap,
                 [p \in Callers |-> 0])
    /\ \E name \in SeqsUpTo(NameAlphabet, MaxNameLen) :
          sanitized = [name |-> name, out |-> <<>>]
    /\ parsed = NoParse

SpecSanitize == InitSanitize /\ [][NextSanitize]_vars

(***************************************************************************)
(* The parsers of package parsers on their own: Parse is called on a       *)
(* reader over a content made of lines.  Every line of an input carries,    *)
(* beside its text, the records it stands for (want), so that what Parse    *)
(* makes of the text can be compared with what the text was written from.   *)
(***************************************************************************)
Want(key, label, value) == [key |-> key, label |-> label, value |-> value]
Line(text, want) == [text |-> text, want |-> want]

\* white space that does not fit the buffer of a Scanner
Pad == [i \in 1..MaxScanTokenSize |-> " "]

\* memory.current and the like: a number, max, or something else
SingleLines ==
    {Line(Itoa(n), <<Want(<<>>, <<>>, Num(n))>>) : n \in {0, 5678, 0 - 1}}
    \cup {Line(<<" ">> \o Itoa(n) \o <<"\t">>, <<Want(<<>>, <<>>, Num(n))>>) : n \in {12}}
    \cup {Line(<<"m","a","x">>, <<Want(<<>>, <<>>, PosInf)>>),
          Line(<<"+","I","n","f">>, <<Want(<<>>, <<>>, PosInf)>>),
          Line(<<"n","a","n">>, <<Want(<<>>, <<>>, NaN)>>)}
    \cup {Line(t, <<>>) : t \in {<<>>, <<" ">>, <<"b","u","s","y">>, <<"M","a","x">>, <<"1"," ","2">>, <<"m","a","x"," ","1">>}}

\* memory.stat and the like: key value
FlatLines ==
    {Line(k \o <<" ">> \o Itoa(n), <<Want(<<>>, k, Num(n))>>) :
        k \in {<<"a">>, <<"b","_","t","o","t","a","l">>}, n \in {0, 7}}
    \cup {Line(<<" ">> \o <<"a">> \o <<"\t", " ">> \o Itoa(5) \o <<" ">>, <<Want(<<>>, <<"a">>, Num(5))>>)}
    \cup {Line(t, <<>>) : t \in {<<>>, <<"x">>, <<"a"," ","1"," ","2">>, <<"a"," ","b">>}}

\* lines with another number of fields than two
FlatWrongCount == {<<"x">>, <<"a"," ","1"," ","2">>}

\* the tokens after the first field of a line of io.stat or of a pressure file
NestedTokens ==
    {Line(k \o <<"=">> \o Itoa(n), <<Want(k, <<>>, Num(n))>>) : k \in {<<"a","v","g","1","0">>, <<"t","o","t","a","l">>}, n \in {3}}
    \cup {Line(t, <<>>) : t \in {<<"k">>, <<"k","=","x">>, <<"a","=","1","=","2">>}}

\* the tokens of a line: none, one, or two of which one is the anchor
TokenLists(tokens, anchor) ==
    {toks \in SeqsUpTo(tokens, 2) :
        Len(toks) = 2 => toks[1] # toks[2] /\ anchor \in {toks[1], toks[2]}}

\* a line: the first field, then its tokens
NestedLines ==
    {Line(Join(<<<<"s","o","m","e">>>> \o [j \in 1..Len(toks) |-> toks[j].text], <<" ">>),
          Flatten([j \in 1..Len(toks) |->
                      [i \in 1..Len(toks[j].want) |->
                          Want(toks[j].want[i].key, <<"s","o","m","e">>, toks[j].want[i].value)]])) :
        toks \in TokenLists(NestedTokens,
                             Line(<<"t","o","t","a","l","=">> \o Itoa(3),
                                  <<Want(<<"t","o","t","a","l">>, <<>>, Num(3))>>))}
    \cup {Line(<<>>, <<>>)}

NestedWrongCount == {<<"k">>}

\* the tokens of a range list: a singleton, a range, a singleton between
\* spaces, and tokens that are neither
One(n) == Line(Itoa(n), <<Want(<<>>, Itoa(n), Num(1))>>)
Span(lo, hi) ==
    Line(Itoa(lo) \o <<"-">> \o Itoa(hi),
         [i \in 1..(hi - lo + 1) |-> Want(<<>>, Itoa(lo + i - 1), Num(1))])

RangeTokens ==
    {One(8), Span(0, 2), Span(10, 11), Line(<<" ">> \o Itoa(1) \o <<" ">>, One(1).want)}
    \cup {Line(t, <<>>) : t \in {<<"a">>, <<"0","-","1","-","2">>}}

\* a line: its tokens between commas (of two, one is 0-2); a line of white space
RangeLines ==
    {Line(Join([j \in 1..Len(toks) |-> toks[j].text], <<",">>),
          Flatten([j \in 1..Len(toks) |-> toks[j].want])) :
        toks \in TokenLists(RangeTokens, Span(0, 2))}
    \cup {Line(<<" ">>, <<>>)}

RangeWrong == {<<"a">>}

\* well-formed lines longer than the buffer of a Scanner
LongLines(parser) ==
    CASE parser = "parsers.FlatKeyValueParser" ->
            Line(<<"a">> \o Pad \o Itoa(1), <<Want(<<>>, <<"a">>, Num(1))>>)
      [] parser = "parsers.NestedKeyValueParser" ->
            Line(<<"s","o","m","e">> \o Pad \o <<"t","o","t","a","l">> \o <<"=">> \o Itoa(1), <<Want(<<"t","o","t","a","l">>, <<"s","o","m","e">>, Num(1))>>)
      [] parser = "parsers.RangeListCountParser" ->
            Line(Pad \o Itoa(3), One(3).want)

\* a short well-formed line of each parser
FirstLine(parser) ==
    CASE parser = "parsers.FlatKeyValueParser" ->
            Line(<<"b","_","t","o","t","a","l">> \o <<" ">> \o Itoa(7), <<Want(<<>>, <<"b","_","t","o","t","a","l">>, Num(7))>>)
      [] parser = "parsers.NestedKeyValueParser" ->
            Line(<<"s","o","m","e">> \o <<" ">> \o <<"a","v","g","1","0">> \o <<"=">> \o Itoa(3),
                 <<Want(<<"a","v","g","1","0">>, <<"s","o","m","e">>, Num(3))>>)
      [] parser = "parsers.RangeListCountParser" -> Span(0, 2)

LineParsers == {"parsers.FlatKeyValueParser", "parsers.NestedKeyValueParser",
                "parsers.RangeListCountParser"}

LinesOf(parser) ==
    CASE parser = "parsers.FlatKeyValueParser" -> FlatLines
      [] parser = "parsers.NestedKeyValueParser" -> NestedLines
      [] parser = "parsers.RangeListCountParser" -> RangeLines

\* the lines a second call adds to the content
WrongLines(parser) ==
    CASE parser = "parsers.FlatKeyValueParser" -> FlatWrongCount
      [] parser = "parsers.NestedKeyValueParser" -> NestedWrongCount
      [] parser = "parsers.RangeListCountParser" -> RangeWrong

\* the metric prefixes the factories give to the parsers
PrefixesOf(parser) ==
    CASE parser = "parsers.SingleValueParser" -> {<<"m","e","m","o","r","y","_","c","u","r","r","e","n","t">>}
      [] parser = "parsers.FlatKeyValueParser" -> {<<"m","e","m","o","r","y","_","s","t","a","t">>}
      [] parser = "parsers.NestedKeyValueParser" -> {<<"i","o","_","s","t","a","t">>, <<"m","e","m","o","r","y","_","p","r","e","s","s","u","r","e">>}
      [] parser = "parsers.RangeListCountParser" -> {<<"c","p","u","s","e","t","_","c","p","u","s">>, <<"c","p","u","s","e","t","_","m","e","m","s","_","e","f","f","e","c","t","i","v","e">>}

\* the content of a file of these lines; the last line may lack its line feed
Text(lines, terminated) ==
    LET all == Flatten([i \in 1..Len(lines) |-> lines[i].text \o <<"\n">>])
    IN  IF terminated \/ all = <<>> THEN all ELSE SubSeq(all, 1, Len(all) - 1)

\* what io.Reader gives: the content, or an error of the read
Reader(content) == [ok |-> TRUE, content |-> content]
ReadFails == [ok |-> FALSE, content |-> <<>>]

ParseCase(parser, MetricPrefix, lines, rd) ==
    [parser |-> parser, MetricPrefix |-> MetricPrefix, lines |-> lines, rd |-> rd,
     out |-> <<>>]

\* the calls of Parse that are followed
ParseCases ==
    {ParseCase("parsers.SingleValueParser", pre, <<l>>, Reader(Text(<<l>>, nl))) :
        pre \in PrefixesOf("parsers.SingleValueParser"), l \in SingleLines, nl \in BOOLEAN}
    \cup UNION {
        {ParseCase(parser, pre, ls, Reader(Text(ls, TRUE))) :
            pre \in PrefixesOf(parser), ls \in SeqsUpTo(LinesOf(parser), MaxLines)}
        \cup {ParseCase(parser, pre, ls, Reader(Text(ls, FALSE))) :
            pre \in PrefixesOf(parser), ls \in SeqsUpTo(LinesOf(parser), 1)}
        \cup {ParseCase(parser, pre, front \o <<LongLines(parser)>>, 
                        Reader(Text(front \o <<LongLines(parser)>>, TRUE))) :
            pre \in PrefixesOf(parser), front \in SeqsUpTo({FirstLine(parser)}, 1)} :
        parser \in LineParsers}
    \cup {ParseCase(parser, pre, <<>>, ReadFails) :
            parser \in LineParsers \cup {"parsers.SingleValueParser"},
            pre \in {<<"m","e","m","o","r","y","_","c","u","r","r","e","n","t">>}}

\* parser.Parse(reader)
ParseReader ==
    /\ parsed.parser # ""
    /\ parsed.out = <<>>
    /\ parsed' = [parsed EXCEPT !.out =
                     <<[at |-> 0, line |-> <<>>, res |-> Parse(parsed, parsed.rd)]>>]
    /\ UNCHANGED <<factories, collectorState, forcedCollectors, disableDefaults, started,
                   cgroups, filterInputs, fileInputs, cgroupInputs, resolver, instances,
                   req, task, sink, panicked, scrapeBudget, sanitized>>

\* parser.Parse on the same content with one more line in it
ParseReaderWithLine ==
    /\ parsed.parser \in LineParsers
    /\ Len(parsed.out) = 1
    /\ parsed.out[1].res.ok
    /\ \E k \in 0..Len(parsed.lines) : \E text \in WrongLines(parsed.parser) :
          LET ls == SubSeq(parsed.lines, 1, k) \o <<Line(text, <<>>)>>
                    \o SubSeq(parsed.lines, k + 1, Len(parsed.lines))
          IN  parsed' = [parsed EXCEPT !.out =
                  Append(@, [at |-> k + 1, line |-> text,
                             res |-> Parse(parsed, Reader(Text(ls, TRUE)))])]
    /\ UNCHANGED <<factories, collectorState, forcedCollectors, disableDefaults, started,
                   cgroups, filterInputs, fileInputs, cgroupInputs, resolver, instances,
                   req, task, sink, panicked, scrapeBudget, sanitized>>

NextParsers == ParseReader \/ ParseReaderWithLine

InitParsers ==
    /\ InitCalls({}, {cl \in CmdLines({}) : ~cl.disableDefaults}, {}, <<>>, {<<>>}, {<<>>},
                 EmptyMap, [p \in Callers |-> 0])
    /\ sanitized = NoName
    /\ parsed \in ParseCases

SpecParsers == InitParsers /\ [][NextParsers]_vars

\* the collectors of a file with one value
SingleValueCollectors == {MemoryCurrent, MemorySwapCurrent, MemoryHigh, PidsCurrent, PidsPeak}

\* the contents such a file shows: a number, max, or something else
SingleFileLines ==
    {l \in SingleLines : l.text \in {Itoa(5678), <<"m","a","x">>, <<"b","u","s","y">>}}

SingleFiles ==
    [c \in SingleValueCollectors |->
        {Content(Text(<<l>>, TRUE)) : l \in SingleFileLines} \cup {Errno("ENOENT")}]

\* one of the single-value collectors is registered and scraped
InitSingle ==
    \E c \in SingleValueCollectors :
        InitWith({c}, {cl \in CmdLines({c}) : cl.forced = {}}, {1},
                 SubSeq(AllDirs, 1, NumDirs), {<<>>}, SingleFiles,
                 [p \in Callers |-> MaxScrapes])

SpecSingle == InitSingle /\ [][Next]_vars

\* cpu.pressure as the kernel may show it: a line with two records, a line
\* with one, an empty file, a file that cannot be opened, a read that fails
UpdateFiles ==
    [c \in {CpuPressure} |->
        {Content(<<"s","o","m","e"," ","a","v","g","1","0","=","1"," ","t","o","t","a","l","=","2","\n">>),
         Content(<<"s","o","m","e"," ","a","v","g","1","0","=","3","\n">>),
         Content(<<>>), Errno("ENOENT"), Errno("EIO")}]

\* a File Collector of several records per file is scraped again and again
InitUpdate ==
    InitWith({CpuPressure}, {cl \in CmdLines({CpuPressure}) : cl.forced = {}}, {1},
             SubSeq(AllDirs, 1, NumDirs), {<<>>}, UpdateFiles,
             [p \in Callers |-> MaxScrapes])

SpecUpdate == InitUpdate /\ [][Next]_vars

\* directories the glob patterns of main may match: the first two have the
\* same base name, and the base name of the third sanitizes to the same
\* string
SameBaseDirs == << <<"/","c","/","a",".","s">>, <<"/","d","/","a",".","s">>, <<"/","d","/","a","_","s">>, <<"/","c","/","b">> >>

\* memory.current shows one value or another, or cannot be opened
SameBaseFiles ==
    [c \in {MemoryCurrent} |->
        {Content(<<"1","\n">>), Content(<<"2","\n">>), Errno("ENOENT")}]

\* memory.current is scraped over directories whose labels coincide
InitSameBase ==
    InitWith({MemoryCurrent}, {cl \in CmdLines({MemoryCurrent}) : cl.forced = {}}, {1},
             SubSeq(SameBaseDirs, 1, NumDirs), {<<>>}, SameBaseFiles,
             [p \in Callers |-> MaxScrapes])

SpecSameBase == InitSameBase /\ [][Next]_vars

\* NewCgroupv2Collector over factories of which a call may return an error
NextFactory ==
    \/ KeepDefaultCollectors
    \/ \E p \in Callers :
          \/ innerHandler(p)
          \/ CheckFilters(p)
          \/ Lock(p)
          \/ RangeCollectorState(p)
          \/ CallFactory(p)
          \/ CallFactoryError(p)
          \/ NewCgroupv2CollectorReturn(p)

\* every caller resolves once, with or without a filter
InitFactory ==
    InitWith({MemoryCurrent, CpuStat},
             {cl \in CmdLines({MemoryCurrent, CpuStat}) :
                 cl.forced = {} /\ ~cl.disableDefaults},
             Callers, SubSeq(AllDirs, 1, 1),
             {<<>>, <<MemoryCurrent>>, <<CpuStat>>}, RegistryFiles,
             [p \in Callers |-> 0])

SpecFactory == InitFactory /\ [][NextFactory]_vars

\* fair scheduling: a goroutine that can send its duration or success
\* record (the sink accepts it) or call wg.Done() does so in the end, and a
\* wg.Wait() that can return returns. Nothing is assumed of the steps of
\* Update, which read files.
FairScheduling ==
    \A p \in Callers :
        /\ WF_vars(CollectReturn(p))
        /\ \A name \in {MemoryCurrent, CpuStat} :
              /\ WF_vars(ExecuteDuration(p, name))
              /\ WF_vars(ExecuteSuccess(p, name))
              /\ WF_vars(WgDone(p, name))

\* the command line switches off none, one or both of the collectors, so
\* that Collect starts two, one or no goroutine; of Update only the
\* Collector interface is known
InitLive ==
    InitWith({MemoryCurrent, CpuStat},
             {cl \in SwitchOff({MemoryCurrent, CpuStat}) : ~cl.disableDefaults},
             {1}, SubSeq(AllDirs, 1, NumDirs), {<<>>},
             [c \in {MemoryCurrent, CpuStat} |-> {Content(<<"1", "\n">>)}],
             [p \in Callers |-> MaxScrapes])

SpecLive == InitLive /\ [][NextExecute]_vars /\ FairScheduling

(***************************************************************************)
(* Properties.                                                             *)
(***************************************************************************)
\* NewCgroupv2Collector has returned an aggregate to caller p
Resolved(p) == req[p].pc \in {"resolved", "collecting"}

\* C1: registry singleton.  Whatever the callers of NewCgroupv2Collector and
\* their filters, the factory of a name is invoked at most once, exactly once
\* when some returned aggregate includes the name, and every returned
\* aggregate that includes the name holds the one instance of the cache.
C1_RegistrySingleton ==
    \A c \in factories :
        /\ factoryCalls[c] <= 1
        /\ initiatedCollectors[c] = factoryCalls[c]
        /\ \A p \in Callers :
              Resolved(p) /\ c \in DOMAIN req[p].Collectors =>
                  /\ factoryCalls[c] = 1
                  /\ req[p].Collectors[c] = initiatedCollectors[c]
                  /\ <<c, req[p].Collectors[c]>> \in DOMAIN instances

\* a caller is inside the factory of a name while another caller, whose
\* aggregate will include that name, waits for the mutex
C1_Witness ==
    \E p, q \in Callers :
        /\ p # q
        /\ req[p].pc = "factory" /\ req[q].pc = "lock"
        /\ req[p].key \in req[q].f \/ (req[q].f = {} /\ collectorState[req[p].key])

\* the names of the aggregate of caller p, the goroutines of its Collect
\* that have not ended, and whether a Collect of p has returned
Aggregate(p) == DOMAIN req[p].Collectors
Live(p) == {c \in factories : task[p][c].pc \notin {"none", "exit"}}
Returned(p) == req[p].pc = "resolved" /\ req[p].returned > 0
UpdateFailed(p, c) == task[p][c].err \in {"open", "parse"}
UpdateReturned(p, c) == task[p][c].err \in {"nil", "open", "parse"}

\* C2: each Collect sends, for every collector of the aggregate, exactly one
\* duration record and exactly one success record under the collector's
\* name, whether Update returned nil or an error; the success value is 1 if
\* Update returned nil and 0 otherwise.
C2_InstrumentationPair ==
    \A p \in Callers : \A c \in factories :
        LET t == task[p][c]
            s == sink[p][c]
        IN  /\ s.duration <= 1 /\ Len(s.success) <= 1
            /\ c \notin Aggregate(p) => s.duration = 0 /\ s.success = <<>>
            /\ t.pc \in {"done", "exit"} =>
                  /\ s.duration = 1
                  /\ s.success = <<IF t.err = "nil" THEN 1 ELSE 0>>
            /\ Returned(p) /\ c \in Aggregate(p) => t.pc = "exit" /\ UpdateReturned(p, c)

\* a Collect has returned with one collector that failed and one that did not
C2_Witness ==
    \E p \in Callers : \E c, d \in Aggregate(p) :
        /\ Returned(p)
        /\ task[p][c].err = "nil" /\ sink[p][c].success = <<1>> /\ sink[p][c].duration = 1
        /\ UpdateFailed(p, d) /\ sink[p][d].success = <<0>> /\ sink[p][d].duration = 1

\* C3: failure isolation.  When the Update of one collector has returned an
\* error, that collector reports success 0, every other collector of the
\* aggregate still runs its Update to its return and reports the success
\* value of its own outcome, and the wait group still counts every goroutine,
\* so that Collect returns once all have ended.
C3_FailureIsolation ==
    \A p \in Callers : \A c \in Aggregate(p) :
        UpdateFailed(p, c) =>
            /\ Len(sink[p][c].success) = 1 => sink[p][c].success = <<0>>
            /\ req[p].pc = "collecting" => req[p].wg = Cardinality(Live(p))
            /\ \A d \in Aggregate(p) \ {c} :
                  /\ task[p][d].pc # "none"
                  /\ task[p][d].pc \in {"duration", "success", "done", "exit"}
                        => UpdateReturned(p, d)
                  /\ Len(sink[p][d].success) = 1
                        => sink[p][d].success = <<IF task[p][d].err = "nil" THEN 1 ELSE 0>>
                  /\ Returned(p) => task[p][d].pc = "exit" /\ Len(sink[p][d].success) = 1

\* one collector has failed and ended while another is still inside Update,
\* writing the records of a later directory
C3_Witness ==
    \E p \in Callers : \E c, d \in Aggregate(p) :
        /\ UpdateFailed(p, c) /\ task[p][c].pc = "exit" /\ sink[p][c].success = <<0>>
        /\ task[p][d].pc = "range" /\ task[p][d].dir > 1

\* C4: Collect starts one goroutine per collector of the aggregate and is a
\* barrier: no goroutine of a Collect is alive outside of it, when Collect
\* has returned every Update has returned and both records of every
\* collector are in the sink, and nothing reaches the sink of a caller that
\* is not inside Collect.
C4_Barrier ==
    /\ [](\A p \in Callers :
            /\ req[p].pc = "collecting" =>
                  /\ {c \in factories : task[p][c].pc # "none"} = Aggregate(p)
                  /\ req[p].wg = Cardinality(Live(p))
            /\ req[p].pc # "collecting" => Live(p) = {}
            /\ Returned(p) =>
                  \A c \in Aggregate(p) :
                      /\ task[p][c].pc = "exit" /\ UpdateReturned(p, c)
                      /\ sink[p][c].duration = 1 /\ Len(sink[p][c].success) = 1)
    /\ [][\A p \in Callers :
            req[p].pc # "collecting" /\ req'[p].pc # "collecting" => sink'[p] = sink[p]]_vars

\* a Collect over two collectors has returned
C4_Witness ==
    \E p \in Callers :
        /\ Returned(p)
        /\ Cardinality(Aggregate(p)) = 2
        /\ \A c \in Aggregate(p) : task[p][c].pc = "exit" /\ task[p][c].written # {}

\* the filter names the loop over filters rejects, by position
Offending(fl) ==
    {i \in DOMAIN fl : fl[i] \notin DOMAIN collectorState \/ ~collectorState[fl[i]]}
FirstOffending(fl) == CHOOSE i \in Offending(fl) : \A j \in Offending(fl) : i <= j
\* the step of caller p that runs the loop over the filters of its request
FilterStep(p) == req[p].pc = "filter" /\ req'[p].pc # "filter"

\* C5 as stated: filtered resolution fails with a 'missing collector' error if
\* any filter name is not registered, and with a 'disabled collector' error if
\* any filter name is registered but disabled.
C5_AnyOffendingDecides ==
    [][\A p \in Callers : FilterStep(p) =>
          LET fl == req[p].filters
          IN  /\ (\E i \in DOMAIN fl : fl[i] \notin DOMAIN collectorState)
                    => req'[p].pc = "badRequest" /\ req'[p].err = "missing collector"
              /\ (\E i \in DOMAIN fl : fl[i] \in DOMAIN collectorState /\ ~collectorState[fl[i]])
                    => req'[p].pc = "badRequest" /\ req'[p].err = "disabled collector"]_vars

\* C5: filtered resolution fails if any filter name is not registered or is
\* registered but disabled, and the error is that of the first such name in
\* the order of the filters: 'missing collector' if it is not registered,
\* 'disabled collector' if it is disabled.  On the failure no factory is
\* invoked, the singleton cache is unchanged, and the request ends as a bad
\* request: it holds no aggregate and starts no collection.
C5_FirstOffendingDecides ==
    /\ [][\A p \in Callers : FilterStep(p) =>
            LET fl == req[p].filters
            IN  /\ IF Offending(fl) = {}
                   THEN req'[p].pc = "lock" /\ req'[p].err = ""
                   ELSE /\ req'[p].pc = "badRequest"
                        /\ req'[p].err =
                              IF fl[FirstOffending(fl)] \notin DOMAIN collectorState
                              THEN "missing collector" ELSE "disabled collector"
                /\ UNCHANGED <<initiatedCollectors, factoryCalls, instances, task, sink>>]_vars
    /\ [](\A p \in Callers : req[p].pc = "badRequest" =>
            /\ req[p].Collectors = EmptyMap /\ req[p].returned = 0
            /\ \A c \in factories : task[p][c].pc = "none" /\ sink[p][c] = EmptySink)
    /\ [][\A p \in Callers : req[p].pc = "badRequest" => req'[p] = req[p]]_vars

\* a request whose first filter is disabled and whose second is not
\* registered has been answered with 'disabled collector', and one with the
\* same filters in the other order with 'missing collector'
C5_Witness ==
    \E p, q \in Callers : \E c \in factories :
        /\ ~collectorState[c]
        /\ req[p].pc = "badRequest" /\ req[p].filters = <<c, NoSuch>>
        /\ req[p].err = "disabled collector"
        /\ req[q].pc = "badRequest" /\ req[q].filters = <<NoSuch, c>>
        /\ req[q].err = "missing collector"

\* the names NewCgroupv2Collector is to resolve for caller p
Target(p) ==
    IF req[p].f = {} THEN {c \in DOMAIN collectorState : collectorState[c]} ELSE req[p].f

\* C6: on success the names of the aggregate are exactly the enabled
\* registered names when the filter is empty and exactly the filter names
\* when it is not, and the call constructs no collector outside this set.
C6_AggregateNames ==
    /\ [](\A p \in Callers :
            /\ Resolved(p) => Aggregate(p) = Target(p)
            /\ req[p].pc \in {"range", "factory"} => Aggregate(p) \subseteq Target(p)
            /\ req[p].pc = "factory" => req[p].key \in Target(p))
    /\ [][\A p \in Callers : FilterStep(p) /\ req'[p].pc = "lock"
            => req'[p].f = Range(req[p].filters)]_vars
    /\ [][\A c \in factories : factoryCalls'[c] # factoryCalls[c] =>
            \E p \in Callers :
                req[p].pc = "factory" /\ req[p].key = c /\ c \in Target(p)]_vars

\* a filtered call has returned an aggregate of one collector while two are
\* enabled, and an unfiltered call has returned both
C6_Witness ==
    \E p, q \in Callers :
        /\ Resolved(p) /\ req[p].f # {} /\ Aggregate(p) = req[p].f
        /\ Resolved(q) /\ req[q].f = {} /\ Aggregate(q) = factories
        /\ Cardinality(Aggregate(p)) < Cardinality(Aggregate(q))

\* C7: DisableDefaultCollectors disables every registered collector that is
\* not in forcedCollectors and leaves every collector of forcedCollectors
\* with the value the command line gave it; forcedCollectors, the factories
\* and the singleton cache are unchanged.
C7_DisableDefaults ==
    /\ [][~started /\ started' /\ disableDefaults =>
            /\ DOMAIN collectorState' = DOMAIN collectorState
            /\ \A c \in DOMAIN collectorState :
                  IF c \in forcedCollectors
                  THEN collectorState'[c] = collectorState[c]
                  ELSE ~collectorState'[c]
            /\ UNCHANGED <<forcedCollectors, factories, initiatedCollectors,
                           factoryCalls, instances>>]_vars
    /\ [](started /\ disableDefaults =>
            \A c \in DOMAIN collectorState \ forcedCollectors : ~collectorState[c])

\* after DisableDefaultCollectors one collector forced on is enabled and one
\* the command line did not name is disabled
C7_Witness ==
    /\ started /\ disableDefaults
    /\ \E c \in forcedCollectors : collectorState[c]
    /\ \E c \in DOMAIN collectorState \ forcedCollectors : ~collectorState[c]

C9_AllOrNothing ==
    \A p \in Callers : \A c \in factories :
        UpdateFailed(p, c) =>
            /\ sink[p][c].data = EmptyMap
            /\ task[p][c].written = {}
            /\ ~task[p][c].changed

\* an Update that failed at its second directory after it had added to a
\* counter and sent the records of its first
C9_Witness ==
    \E p \in Callers : \E c \in factories :
        /\ UpdateFailed(p, c) /\ task[p][c].failed = {2}
        /\ task[p][c].written = {1} /\ task[p][c].changed
        /\ sink[p][c].data # EmptyMap
        /\ instances[task[p][c].inst].counterVecs # EmptyMap

RECURSIVE SumOf(_)
\* the sum of the values of a sequence
SumOf(q) == IF q = <<>> THEN Num(0) ELSE FAdd(SumOf(SubSeq(q, 1, Len(q) - 1)), q[Len(q)])

\* the label combinations of the vectors vecs, as <<metricName, cgroup>>
SeriesOf(vecs) == {<<m, cg>> : m \in DOMAIN vecs, cg \in UNION {DOMAIN vecs[n] : n \in DOMAIN vecs}}
                     \cap UNION {{<<m, cg>> : cg \in DOMAIN vecs[m]} : m \in DOMAIN vecs}

\* the step of the goroutine of collector c that consumes one record
RecordStep(p, c) == task[p][c].pc = "range" /\ task'[p][c] # task[p][c]

\* C10: a gauge label combination holds the value of the last record
\* written to it; a counter label combination changes only by the addition
\* of a record's value, so it equals the sum of the values added and never
\* decreases; no other step changes a cached value.
C10_GaugeSetCounterAdd ==
    /\ [](\A id \in DOMAIN instances :
            LET cc == instances[id]
            IN  /\ SeriesOf(cc.counterVecs) = DOMAIN cc.log
                /\ \A sr \in DOMAIN cc.log :
                      /\ cc.log[sr] # <<>>
                      /\ cc.counterVecs[sr[1]][sr[2]] = SumOf(cc.log[sr]))
    /\ [][\A p \in Callers : \A c \in factories : RecordStep(p, c) =>
            LET t == task[p][c]
                cc == instances[t.inst]
                after == instances'[t.inst]
                key == CHOOSE k \in DOMAIN t.metrics : k \notin DOMAIN task'[p][c].metrics
                metricName == sanitizeP8sName(key)
                sr == <<metricName, t.cgroupName>>
            IN  IF isCounter(cc, metricName)
                THEN /\ after.counterVecs[metricName][t.cgroupName] =
                           FAdd(ValueAt(cc.counterVecs, metricName, t.cgroupName), t.metrics[key])
                     /\ after.gaugeVecs = cc.gaugeVecs
                     /\ \A o \in SeriesOf(cc.counterVecs) \ {sr} :
                           after.counterVecs[o[1]][o[2]] = cc.counterVecs[o[1]][o[2]]
                ELSE /\ after.gaugeVecs[metricName][t.cgroupName] = t.metrics[key]
                     /\ after.counterVecs = cc.counterVecs
                     /\ \A o \in SeriesOf(cc.gaugeVecs) \ {sr} :
                           after.gaugeVecs[o[1]][o[2]] = cc.gaugeVecs[o[1]][o[2]]]_vars
    /\ [][\A id \in DOMAIN instances :
            /\ \A sr \in SeriesOf(instances[id].counterVecs) :
                  /\ sr \in SeriesOf(instances'[id].counterVecs)
                  /\ ~FLess(instances'[id].counterVecs[sr[1]][sr[2]],
                            instances[id].counterVecs[sr[1]][sr[2]])
            /\ instances'[id] # instances[id] =>
                  \E p \in Callers : \E c \in factories :
                      RecordStep(p, c) /\ task[p][c].inst = id]_vars

\* in a second scrape a counter holds the sum of two additions, and a gauge
\* that both scrapes wrote holds the value of the last record, not a sum
C10_Witness ==
    \E p \in Callers : \E c, d \in factories :
        LET g == instances[task[p][c].inst]
            k == instances[task[p][d].inst]
        IN  /\ scrapeBudget[p] < MaxScrapes - 1
            /\ task[p][c].pc = "open" /\ task[p][c].written = {1}
            /\ \E m \in DOMAIN g.gaugeVecs :
                  /\ Cardinality(DOMAIN g.gaugeVecs[m]) = Len(g.dirNames)
                  /\ g.gaugeVecs[m][sanitizeP8sName(Base(g.dirNames[1]))] = Num(1)
            /\ \E sr \in DOMAIN k.log :
                  /\ Len(k.log[sr]) = 2
                  /\ k.counterVecs[sr[1]][sr[2]] = Num(2)

PressureCollectors == {CpuPressure, MemoryPressure}

PressureShown ==
    { << <<"m","e","m","o","r","y","_","p","r","e","s","s","u","r","e","_","a","v","g","1","0">>,
         <<"s","o","m","e">>, Num(2) >>,
      << <<"m","e","m","o","r","y","_","p","r","e","s","s","u","r","e","_","t","o","t","a","l">>,
         <<"s","o","m","e">>, Num(1) >>,
      << <<"m","e","m","o","r","y","_","p","r","e","s","s","u","r","e","_","t","o","t","a","l">>,
         <<"f","u","l","l">>, Num(3) >> }
StatShown ==
    { << <<"m","e","m","o","r","y","_","s","t","a","t">>, <<"a","_","t","o","t","a","l">>, Num(1) >>,
      << <<"m","e","m","o","r","y","_","s","t","a","t">>, <<"b">>, Num(2) >>,
      << <<"m","e","m","o","r","y","_","s","t","a","t">>, <<"b">>, Num(1) >> }

\* the label combinations a vector cache holds, with their values
Stored(vecs) == {<<m, l, vecs[m][l]>> : <<m, l>> \in SeriesOf(vecs)}

C14_NoPanic == ~panicked

\* the goroutine of cpu.stat was about to add a negative value to a counter
\* when the process ended
C14_Witness ==
    /\ panicked
    /\ \E p \in Callers : \E key \in DOMAIN task[p][CpuStat].metrics :
          /\ task[p][CpuStat].pc = "range"
          /\ FLess(task[p][CpuStat].metrics[key], Num(0))
          /\ isCounter(instances[task[p][CpuStat].inst], sanitizeP8sName(key))

\* the goroutines that are inside Update on instance id
Updating(id) ==
    {pc \in Callers \X factories :
        task[pc[1]][pc[2]].inst = id /\ task[pc[1]][pc[2]].pc \in {"open", "range"}}

\* C15 as stated: in every reachable state, several scrapes in flight
\* included, at most one task is executing Update on a given File
\* Collector instance.
C15_OneUpdater == \A id \in DOMAIN instances : Cardinality(Updating(id)) <= 1

\* the goroutines of two requests, one of them filtered, are both in the
\* loop over the records on the one instance of memory.current
C15_Witness ==
    \E p, q \in Callers :
        /\ p # q /\ req[p].f = {} /\ req[q].f = {MemoryCurrent}
        /\ task[p][MemoryCurrent].pc = "range" /\ task[q][MemoryCurrent].pc = "range"
        /\ task[p][MemoryCurrent].inst = task[q][MemoryCurrent].inst

\* C17: across the scrapes the caches of a File Collector only grow: a
\* vector once created for a metric name stays in its cache, and a label
\* combination once present in a vector stays in it (a vector that took the
\* place of another would have lost the label combinations of the first).
C17_CachesGrow ==
    [][\A id \in DOMAIN instances :
          /\ id \in DOMAIN instances'
          /\ SeriesOf(instances[id].gaugeVecs) \subseteq SeriesOf(instances'[id].gaugeVecs)
          /\ SeriesOf(instances[id].counterVecs) \subseteq SeriesOf(instances'[id].counterVecs)
          /\ DOMAIN instances[id].gaugeVecs \subseteq DOMAIN instances'[id].gaugeVecs
          /\ DOMAIN instances[id].counterVecs \subseteq DOMAIN instances'[id].counterVecs]_vars

\* in a later scrape a collector has written the records of its first
\* directory again and its vector still holds a label combination for
\* every directory
C17_Witness ==
    \E p \in Callers : \E c \in factories :
        LET cc == instances[task[p][c].inst]
        IN  /\ scrapeBudget[p] < MaxScrapes - 1
            /\ task[p][c].written = {1} /\ task[p][c].pc = "open"
            /\ Len(cc.dirNames) > 1
            /\ \E m \in DOMAIN cc.gaugeVecs \cup DOMAIN cc.counterVecs :
                  Cardinality({sr \in SeriesOf(cc.gaugeVecs) \cup SeriesOf(cc.counterVecs) :
                                  sr[1] = m}) = Len(cc.dirNames)

\* C18: the directory list of a File Collector is the one its factory was
\* called with; no resolve, Collect or Update changes it, and a resolve
\* with another directory list receives the cached instance with the list
\* unchanged, over which its Update then runs.
C18_DirNamesFixed ==
    /\ [][\A id \in DOMAIN instances :
            /\ id \in DOMAIN instances'
            /\ instances'[id].dirNames = instances[id].dirNames]_vars
    /\ [][\A id \in DOMAIN instances' \ DOMAIN instances :
            \E p \in Callers :
                /\ req[p].pc = "factory" /\ req[p].key = id[1]
                /\ instances'[id].dirNames = req[p].cgroups]_vars
    /\ [](\A p \in Callers : \A c \in factories :
            task[p][c].pc # "none" =>
                /\ task[p][c].opened \subseteq 1..Len(instances[task[p][c].inst].dirNames)
                /\ task[p][c].err = "nil" =>
                      task[p][c].opened = 1..Len(instances[task[p][c].inst].dirNames))

\* a caller that passed another directory list than the one the instance
\* was built with has scraped: its Update went over the list of the instance
C18_Witness ==
    \E p \in Callers : \E c \in Aggregate(p) :
        LET cc == instances[<<c, req[p].Collectors[c]>>]
        IN  /\ Returned(p)
            /\ cc.dirNames # req[p].cgroups
            /\ Len(cc.dirNames) < Len(req[p].cgroups)
            /\ task[p][c].err = "nil"
            /\ task[p][c].opened = 1..Len(cc.dirNames)

\* the task of collector c of caller p has passed the log statement of execute
ExecuteLogged(p, c) == task[p][c].pc \in {"success", "done", "exit"}

\* C16: when Update returns ErrNoData, execute logs "collector returned no
\* data" at debug level and nothing at error level, and sends success 0;
\* for any other error it logs at error level and sends success 0 too, and
\* what the two outcomes send to the channel is the same.
C16_NoDataIsDebug ==
    \A p \in Callers : \A c \in factories :
        LET t == task[p][c]
        IN  /\ ExecuteLogged(p, c) /\ t.err = ErrNoData =>
                 t.logged = <<[level |-> "DEBUG", msg |-> "collector returned no data"]>>
            /\ ExecuteLogged(p, c) /\ t.err \notin {"nil", ErrNoData} =>
                 t.logged = <<[level |-> "ERROR", msg |-> "collector failed"]>>
            /\ t.pc \in {"done", "exit"} /\ t.err # "nil" =>
                 sink[p][c] = [EmptySink EXCEPT !.duration = 1, !.success = <<0>>]
            /\ t.pc \in {"done", "exit"} /\ t.err = "nil" =>
                 sink[p][c].success = <<1>>

\* in one scrape one collector has returned ErrNoData and another a genuine
\* error; both goroutines have ended
C16_Witness ==
    \E p \in Callers : \E c, d \in factories :
        /\ task[p][c].pc = "exit" /\ task[p][c].err = ErrNoData
        /\ task[p][c].logged[1].level = "DEBUG"
        /\ task[p][d].pc = "exit" /\ task[p][d].err = "open"
        /\ sink[p][c] = sink[p][d]

\* C19: sanitizeP8sName is idempotent: applied to its own result it returns
\* that result, also for names with backslash escapes or quotes.
C19_Idempotent ==
    Len(sanitized.out) = 2 => sanitized.out[2] = sanitized.out[1]

\* the sanitizer has run twice on a name with a backslash that Unquote
\* accepted, and the result is not empty
C19_Witness ==
    /\ Len(sanitized.out) = 2
    /\ "\\" \in Range(sanitized.name)
    /\ UnquoteBody(sanitized.name).ok
    /\ sanitized.out[1] # <<>>
    /\ sanitized.out[1] # sanitized.name

\* C20: the output of sanitizeP8sName holds only characters of
\* [A-Za-z0-9_:], neither begins nor ends with "_", and has no "__".
C20_OutputShape ==
    \A k \in 1..Len(sanitized.out) :
        LET y == sanitized.out[k]
        IN  /\ Range(y) \subseteq NameChars
            /\ y # <<>> => y[1] # "_" /\ y[Len(y)] # "_"
            /\ \A j \in 1..(Len(y) - 1) : ~(y[j] = "_" /\ y[j + 1] = "_")

\* the name had two unsupported characters in a row between supported ones,
\* and the output has a "_"
C20_Witness ==
    /\ Len(sanitized.out) >= 1
    /\ \E i \in 2..(Len(sanitized.name) - 2) :
          /\ sanitized.name[i] \notin NameChars \cup {"\\"}
          /\ sanitized.name[i + 1] \notin NameChars \cup {"\\"}
          /\ sanitized.name[i - 1] \in NameChars \ {"_"}
          /\ sanitized.name[i + 2] \in NameChars \ {"_"}
    /\ "_" \in Range(sanitized.out[1])

\* the records the lines of the input stand for, in the order of the lines
Wanted == Flatten([i \in 1..Len(parsed.lines) |-> parsed.lines[i].want])

\* the label key of the records of a parser with this metric prefix
LabelKey(parser, MetricPrefix) ==
    CASE parser = "parsers.FlatKeyValueParser" -> "stat"
      [] parser = "parsers.NestedKeyValueParser" ->
            IF Contains(MetricPrefix, <<"p","r","e","s","s","u","r","e">>) THEN "type" ELSE "device"
      [] parser = "parsers.RangeListCountParser" ->
            IF Contains(MetricPrefix, <<"m","e","m","s">>) THEN "numanode" ELSE "cpucore"

\* the well-formed lines and tokens of the input as records
WantedRecords ==
    [i \in 1..Len(Wanted) |->
        IF parsed.parser = "parsers.SingleValueParser"
        THEN Metric(parsed.MetricPrefix, Wanted[i].value, EmptyMap)
        ELSE Metric(IF parsed.parser = "parsers.NestedKeyValueParser"
                    THEN parsed.MetricPrefix \o <<"_">> \o Wanted[i].key
                    ELSE parsed.MetricPrefix,
                    Wanted[i].value,
                    Put(EmptyMap, LabelKey(parsed.parser, parsed.MetricPrefix),
                        Wanted[i].label))]

\* a line of the content is longer than a Scanner can hold
TooLong == parsed.rd.ok /\ ScanErrTooLong(parsed.rd.content)

\* the label values of the records of a result
LabelValues(res, key) == {res.metrics[i].Labels[key] : i \in 1..Len(res.metrics)}

C24_SingleValue ==
    parsed.parser = "parsers.SingleValueParser" =>
        \A k \in 1..Len(parsed.out) :
            LET res == parsed.out[k].res
            IN  IF parsed.rd.ok /\ Wanted # <<>>
                THEN /\ res.ok
                     /\ res.metrics = <<Metric(parsed.MetricPrefix, Wanted[1].value, EmptyMap)>>
                ELSE ~res.ok /\ res.metrics = <<>>

\* the content max with a line feed has been parsed to +Inf
C24_Witness ==
    /\ parsed.parser = "parsers.SingleValueParser"
    /\ parsed.rd.ok
    /\ parsed.rd.content = <<"m","a","x","\n">>
    /\ Len(parsed.out) = 1
    /\ parsed.out[1].res.metrics[1].Value = PosInf

FileValues == {l.want[1].value : l \in {x \in SingleFileLines : x.want # <<>>}}

\* C26: for the single-value collectors every scrape writes the value of
\* the file as a gauge named after the sanitized file name, with the label
\* cgroup = sanitized base name of the directory, and the counter cache of
\* the collector is empty in every reachable state.
C26_SingleValueGauge ==
    /\ [](\A id \in DOMAIN instances :
            id[1] \in SingleValueCollectors =>
                LET cc == instances[id]
                    m == sanitizeP8sName(FileName(id[1]))
                IN  /\ cc.counterVecs = EmptyMap
                    /\ DOMAIN cc.gaugeVecs \subseteq {m}
                    /\ \A sr \in SeriesOf(cc.gaugeVecs) :
                          /\ \E i \in 1..Len(cc.dirNames) :
                                sr[2] = sanitizeP8sName(Base(cc.dirNames[i]))
                          /\ cc.gaugeVecs[sr[1]][sr[2]] \in FileValues)
    /\ [](\A p \in Callers : \A c \in factories \cap SingleValueCollectors :
            task[p][c].pc \in {"duration", "success", "done", "exit"}
            /\ task[p][c].err = "nil" =>
                LET cc == instances[task[p][c].inst]
                    m == sanitizeP8sName(FileName(c))
                IN  /\ task[p][c].written = 1..Len(cc.dirNames)
                    /\ \A i \in 1..Len(cc.dirNames) :
                          <<m, sanitizeP8sName(Base(cc.dirNames[i]))>>
                              \in SeriesOf(cc.gaugeVecs) \cap DOMAIN sink[p][c].data)
    /\ [][\A p \in Callers : \A c \in factories \cap SingleValueCollectors :
            LET t == task[p][c]
                m == sanitizeP8sName(FileName(c))
            IN  /\ t.pc = "open" /\ task'[p][c].pc = "range" =>
                      /\ DOMAIN task'[p][c].metrics = {m}
                      /\ task'[p][c].metrics[m] \in FileValues
                /\ t.pc = "range" /\ task'[p][c] # t =>
                      /\ t.cgroupName =
                            sanitizeP8sName(Base(instances[t.inst].dirNames[t.dir]))
                      /\ instances'[t.inst].gaugeVecs[m][t.cgroupName] = t.metrics[m]]_vars

\* in a later scrape memory.swap.current holds 5678 for the first directory
\* and +Inf for the second
C26_Witness ==
    /\ <<MemorySwapCurrent, 1>> \in DOMAIN instances
    /\ \E p \in Callers :
          /\ scrapeBudget[p] < MaxScrapes - 1
          /\ task[p][MemorySwapCurrent].pc = "exit"
          /\ task[p][MemorySwapCurrent].err = "nil"
    /\ LET cc == instances[<<MemorySwapCurrent, 1>>]
           m == <<"m","e","m","o","r","y","_","s","w","a","p","_","c","u","r","r","e","n","t">>
       IN  /\ m \in DOMAIN cc.gaugeVecs
           /\ <<"a","_","s">> \in DOMAIN cc.gaugeVecs[m]
           /\ <<"b">> \in DOMAIN cc.gaugeVecs[m]
           /\ cc.gaugeVecs[m][<<"a","_","s">>] = Num(5678)
           /\ cc.gaugeVecs[m][<<"b">>] = PosInf

\* the records of the file being processed that Update has not yet taken
Pending(t) == t.metrics # EmptyMap /\ t.metrics # <<>>

\* C27: within one Update the tracked directories are processed strictly
\* in the order of the directory list given at construction: the file of
\* directory i+1 is opened only after every record of directory i has been
\* written and emitted.
C27_DirectoryOrder ==
    /\ [](\A p \in Callers : \A c \in factories :
            LET t == task[p][c]
                k == Cardinality(t.opened)
            IN  t.pc # "none" =>
                  /\ t.opened = 1..k
                  /\ t.written \subseteq t.opened
                  /\ k <= Len(instances[t.inst].dirNames)
                  /\ Pending(t) =>
                        /\ t.pc = "range"
                        /\ t.dir = k
                        /\ t.cgroupName =
                              sanitizeP8sName(Base(instances[t.inst].dirNames[k])))
    /\ [][\A p \in Callers : \A c \in factories :
            LET t == task[p][c]
                k == Cardinality(t.opened)
            IN  task'[p][c].opened \ t.opened # {} =>
                  /\ task'[p][c].opened = t.opened \cup {k + 1}
                  /\ ~Pending(t)
                  /\ t.pc = "open"
                  /\ sink'[p][c] = sink[p][c]
                  /\ instances' = instances]_vars

\* cpu.pressure: every directory of the list has been opened and written,
\* and each file held two records
C27_Witness ==
    \E p \in Callers :
        /\ CpuPressure \in factories
        /\ task[p][CpuPressure].pc = "duration"
        /\ task[p][CpuPressure].opened = 1..NumDirs
        /\ task[p][CpuPressure].written = 1..NumDirs
        /\ Cardinality(DOMAIN sink[p][CpuPressure].data) >= 2 * NumDirs

\* Update of the goroutine has returned to execute
AfterUpdate(t) == t.pc \in {"duration", "success", "done", "exit"}

\* C28: no retries. Within one Collect the Update of each collector is
\* invoked exactly once and the file of each tracked directory is opened at
\* most once; a failed read or parse is reported once and is not attempted
\* again within that scrape.
C28_NoRetry ==
    /\ [](\A p \in Callers : \A c \in factories :
            LET t == task[p][c]
            IN  /\ Cardinality(t.failed) <= 1
                /\ t.failed # {} => AfterUpdate(t) /\ t.err \in {"open", "parse"}
                /\ Len(t.logged) <= 1
                /\ Len(sink[p][c].success) <= 1
                /\ sink[p][c].duration <= 1
                /\ t.pc \in {"done", "exit"} /\ t.failed # {} =>
                      /\ t.logged = <<[level |-> "ERROR", msg |-> "collector failed"]>>
                      /\ sink[p][c].success = <<0>>)
    /\ [][\A p \in Callers : \A c \in factories :
            LET t == task[p][c]
                begins == req[p].pc = "resolved" /\ req'[p].pc = "collecting"
                ends == req[p].pc = "collecting" /\ req'[p].pc = "resolved"
            IN  \* the file of a directory is opened once
                /\ t.pc = "open" /\ task'[p][c] # t /\ ~begins
                   /\ t.dir <= Len(instances[t.inst].dirNames) =>
                      /\ t.dir \notin t.opened
                      /\ task'[p][c].opened = t.opened \cup {t.dir}
                \* Update starts with Collect and with nothing else
                /\ begins /\ c \in DOMAIN req[p].Collectors =>
                      /\ task'[p][c].pc = "open"
                      /\ task'[p][c].opened = {}
                /\ ~begins /\ (AfterUpdate(t) \/ t.pc = "none") =>
                      AfterUpdate(task'[p][c]) \/ task'[p][c].pc = "none"
                /\ ~begins => t.opened \subseteq task'[p][c].opened
                \* and has returned when Collect returns
                /\ ends /\ c \in DOMAIN req[p].Collectors => t.pc = "exit"]_vars

\* a scrape is over in which the file of the second directory failed after
\* the first was written
C28_Witness ==
    \E p \in Callers :
        /\ CpuPressure \in factories
        /\ req[p].pc = "resolved"
        /\ req[p].returned >= 1
        /\ task[p][CpuPressure].pc = "exit"
        /\ task[p][CpuPressure].opened = {1, 2}
        /\ task[p][CpuPressure].written = {1}
        /\ task[p][CpuPressure].failed = {2}
        /\ task[p][CpuPressure].err = "parse"

\* C29: within one scrape of one File Collector each series (metric name
\* together with one label combination) is emitted to the sink at most
\* once, for any number of tracked directories and of records per file.
C29_SeriesOnce ==
    \A p \in Callers : \A c \in factories :
        \A sr \in DOMAIN sink[p][c].data : sink[p][c].data[sr] <= 1

\* the first scrape, two directories written: the series of the first
\* directory has gone to the sink twice
C29_Witness ==
    \E p \in Callers :
        /\ CpuPressure \in factories
        /\ scrapeBudget[p] = MaxScrapes - 1
        /\ task[p][CpuPressure].written = {1, 2}
        /\ \E sr \in DOMAIN sink[p][CpuPressure].data :
              /\ sr[2] = sanitizeP8sName(Base(AllDirs[1]))
              /\ sink[p][CpuPressure].data[sr] = 2

\* C30: for each collector in one Collect the duration and the success
\* record go to the sink only after its Update has returned, hence after
\* every data record that Update emitted, and the duration record goes
\* before the success record.
C30_InstrumentationLast ==
    /\ [](\A p \in Callers : \A c \in factories :
            /\ sink[p][c].duration > 0 => AfterUpdate(task[p][c])
            /\ sink[p][c].success # <<>> =>
                  AfterUpdate(task[p][c]) /\ sink[p][c].duration = 1)
    /\ [][\A p \in Callers : \A c \in factories :
            LET t == task[p][c]
                begins == req[p].pc = "resolved" /\ req'[p].pc = "collecting"
            IN  ~begins =>
                  /\ sink'[p][c].duration # sink[p][c].duration =>
                        /\ AfterUpdate(t)
                        /\ sink[p][c].success = <<>>
                        /\ sink'[p][c].success = <<>>
                  /\ sink'[p][c].success # sink[p][c].success =>
                        /\ AfterUpdate(t)
                        /\ sink[p][c].duration = 1
                  /\ AfterUpdate(t) => sink'[p][c].data = sink[p][c].data
                  /\ sink'[p][c].data # sink[p][c].data =>
                        sink[p][c].duration = 0 /\ sink[p][c].success = <<>>]_vars

\* a collector has sent data records, then its duration, then success 1
C30_Witness ==
    \E p \in Callers :
        /\ CpuPressure \in factories
        /\ task[p][CpuPressure].pc = "exit"
        /\ task[p][CpuPressure].written = 1..NumDirs
        /\ DOMAIN sink[p][CpuPressure].data # {}
        /\ sink[p][CpuPressure].duration = 1
        /\ sink[p][CpuPressure].success = <<1>>

\* C31: distinct tracked directories never share a series: after a
\* successful scrape the gauge value stored for the cgroup label of a
\* directory equals the value read from the file of that directory, even
\* when two tracked directories have the same base name or base names that
\* sanitize to the same string.
C31_OwnSeries ==
    \A p \in Callers : \A c \in factories :
        LET t == task[p][c]
        IN  AfterUpdate(t) /\ t.err = "nil" /\ ~Labelled(instances[t.inst]) =>
              LET cc == instances[t.inst]
              IN  \A i \in DOMAIN t.read : \A key \in DOMAIN t.read[i] :
                    ~isCounter(cc, sanitizeP8sName(key)) =>
                        cc.gaugeVecs[sanitizeP8sName(key)]
                                    [sanitizeP8sName(Base(cc.dirNames[i]))]
                            = t.read[i][key]

\* a successful scrape read 1 in /c/a.s and 2 in /d/a.s, and the gauge of
\* the label a_s holds 2
C31_Witness ==
    \E p \in Callers :
        /\ MemoryCurrent \in factories
        /\ task[p][MemoryCurrent].pc = "exit"
        /\ task[p][MemoryCurrent].err = "nil"
        /\ instances[task[p][MemoryCurrent].inst].dirNames[1] = SameBaseDirs[1]
        /\ 1 \in DOMAIN task[p][MemoryCurrent].read
        /\ 2 \in DOMAIN task[p][MemoryCurrent].read
        /\ task[p][MemoryCurrent].read[1] # task[p][MemoryCurrent].read[2]
        /\ \A m \in DOMAIN task[p][MemoryCurrent].read[1] :
              /\ DOMAIN instances[task[p][MemoryCurrent].inst].gaugeVecs[m]
                    = {sanitizeP8sName(Base(SameBaseDirs[1]))}
              /\ instances[task[p][MemoryCurrent].inst].gaugeVecs[m]
                    [sanitizeP8sName(Base(SameBaseDirs[1]))]
                    = task[p][MemoryCurrent].read[2][m]

\* the call of NewCgroupv2Collector by p has returned the error of a factory
FactoryFailed(p) == req[p].pc = "error" /\ req[p].err = "factory"

\* C32: if a factory returns an error during resolve, NewCgroupv2Collector
\* returns that error and no aggregate, no entry for that name is stored in
\* the singleton cache, the registry lock is released, and the instances
\* constructed earlier in the same call stay cached, so that later resolves
\* return those same instances.
C32_FactoryError ==
    /\ [](\A p \in Callers :
            /\ FactoryFailed(p) =>
                  /\ req[p].Collectors = EmptyMap
                  /\ initiatedCollectorsMtx # p
            /\ Resolved(p) =>
                  \A c \in DOMAIN req[p].Collectors :
                      /\ req[p].Collectors[c] = initiatedCollectors[c]
                      /\ <<c, initiatedCollectors[c]>> \in DOMAIN instances)
    /\ [][/\ \A p \in Callers :
               req[p].pc = "factory" /\ FactoryFailed(p)' =>
                  /\ initiatedCollectorsMtx = p
                  /\ initiatedCollectorsMtx' = 0
                  /\ initiatedCollectors[req[p].key] = 0
                  /\ initiatedCollectors' = initiatedCollectors
                  /\ instances' = instances
                  /\ \A c \in DOMAIN req[p].Collectors :
                        initiatedCollectors'[c] = req[p].Collectors[c]
          /\ \A c \in factories :
               initiatedCollectors[c] # 0 =>
                  /\ initiatedCollectors'[c] = initiatedCollectors[c]
                  /\ instances'[<<c, initiatedCollectors[c]>>]
                        = instances[<<c, initiatedCollectors[c]>>]]_vars

\* the factory of one name failed in a call that had built the collector of
\* the other name, which is cached while no other caller has got the lock
C32_Witness ==
    \E p \in Callers : \E c \in factories :
        /\ FactoryFailed(p)
        /\ req[p].key # c
        /\ initiatedCollectors[req[p].key] = 0
        /\ initiatedCollectors[c] # 0
        /\ <<c, initiatedCollectors[c]>> \in DOMAIN instances
        /\ \A q \in Callers \ {p} : req[q].pc \in {"idle", "filter", "lock"}

\* C33: Collect terminates. If the Update of every collector eventually
\* returns and the sink keeps accepting records, then under fair scheduling
\* every Collect call eventually returns, for any number of resolved
\* collectors, zero included.
\* (No goroutine stays in its call of Update for ever: the call is left
\* only by its return.)
C33_CollectTerminates ==
    (\A p \in Callers : \A c \in {MemoryCurrent, CpuStat} :
        []<>(task[p][c].pc # "open"))
    => (\A p \in Callers : (req[p].pc = "collecting") ~> (req[p].pc = "resolved"))

\* the last Collect of a caller has returned: one collector had succeeded,
\* the other had failed
C33_Witness ==
    \E p \in Callers :
        /\ Returned(p)
        /\ scrapeBudget[p] = 0
        /\ Aggregate(p) = {MemoryCurrent, CpuStat}
        /\ task[p][MemoryCurrent].pc = "exit" /\ task[p][MemoryCurrent].err = "nil"
        /\ task[p][CpuStat].pc = "exit" /\ task[p][CpuStat].err = "open"
        /\ sink[p][CpuStat].success = <<0>>

\* C34: every file opened by an Update call is closed by the time that call
\* returns, on the success path and on both error paths (open failure of a
\* later directory, parse failure).
C34_FilesClosed ==
    /\ [](\A p \in Callers : \A c \in factories :
            LET t == task[p][c]
            IN  /\ AfterUpdate(t) => t.openFiles = {}
                /\ t.pc \in {"open", "range"} => t.openFiles = t.parsed
                /\ t.openFiles \subseteq t.opened)
    /\ [][\A p \in Callers : \A c \in factories :
            LET t == task[p][c]
            IN  t.pc \in {"open", "range"} /\ AfterUpdate(task'[p][c]) =>
                  /\ task'[p][c].openFiles = {}
                  /\ task'[p][c].err \in {"nil", "open", "parse"}
                  /\ task'[p][c].err = "nil" =>
                        t.openFiles = 1..Len(instances[t.inst].dirNames)
                  /\ task'[p][c].err = "open" =>
                        t.openFiles = task'[p][c].opened \ task'[p][c].failed
                  /\ task'[p][c].err = "parse" =>
                        t.openFiles \cup task'[p][c].failed = task'[p][c].parsed]_vars

\* Update has returned the error of os.Open for the second directory; the
\* file of the first, which it had opened and written, is closed
C34_Witness ==
    \E p \in Callers :
        /\ CpuPressure \in factories
        /\ task[p][CpuPressure].pc = "duration"
        /\ task[p][CpuPressure].err = "open"
        /\ task[p][CpuPressure].parsed = {1}
        /\ task[p][CpuPressure].written = {1}
        /\ task[p][CpuPressure].failed = {2}
        /\ task[p][CpuPressure].openFiles = {}

====
